---- MODULE Spec2Model ----
(***************************************************************************)
(* GRAPE, grape/general_graph.py: class GeneralGraph.                      *)
(*                                                                         *)
(* The model follows one GeneralGraph object from the state load() leaves  *)
(* it in through the perturbation workflows delete_a_node and              *)
(* simulate_multi_area_perturbation: check_before, the centralities, the   *)
(* snapshot copy_of_self1, the depth-first cascade rm_nodes, the removal   *)
(* of the broken nodes, check_after and the final status update.           *)
(*                                                                         *)
(* A Python exception (ZeroDivisionError, IndexError, KeyError,            *)
(* NetworkXError) or sys.exit() ends the workflow: pc = "fault", err names *)
(* it and failedAt the step that raised it.                                *)
(***************************************************************************)
EXTENDS Integers, Sequences, FiniteSets, TLC

VARIABLES
    G,              \* the live graph (self): nodes, edges, computed node attributes
    D,              \* self.D: node -> Description
    status,         \* self.status: node -> InitStatus
    condition,      \* self.condition: edge -> Father_cond
    Service,        \* self.Service: edge -> weight
    Type,           \* self.Type: node -> SOURCE | HUB | USER
    area,           \* self.area: node -> Area
    FR,             \* self.FR: node -> PerturbationResistant
    broken,         \* self.broken: the (node, "NULL") tuples appended so far
    newstatus,      \* self.newstatus
    finalstatus,    \* self.finalstatus
    has_copy,       \* hasattr(self, "copy_of_self1")
    copy_of_self1,  \* the snapshot
    bn,             \* self.bn
    nodes_in_area,  \* self.nodes_in_area
    lst0,           \* self.lst0: rows of check_before
    lst,            \* self.lst: rows of check_after
    tables,         \* the result tables written so far (file name -> rows)
    pc,             \* position in the running workflow
    op,             \* the running workflow: "delete" | "area" | "none"
    origin,         \* node: the argument of delete_a_node, of the running rm_nodes
    multi_areas,    \* the argument of simulate_multi_area_perturbation
    stack,          \* the frames of rm_nodes that are inside their for loop
    visited,        \* the set rm_nodes shares between its recursive calls
    fv_todo,        \* nodes of FV_nodes_in_area the for loop has not taken yet
    msg,            \* the last diagnostic printed
    err,            \* the exception that ended the workflow
    failedAt,       \* the step that raised it
    runs,           \* perturbations started on this object since load()
    limit,          \* perturbations the driver script runs on this object
    n_of_nodes,     \* calculate_shortest_path: self.order()
    n_of_edges,     \* calculate_shortest_path: the edge count nx.density reads
    partition,      \* self.num, node_chunks and chunk of the row partition
    called,         \* the back-ends calculate_shortest_path has called
    arr,            \* parallel Floyd-Warshall: the shared distance matrix
    arr1,           \* parallel Floyd-Warshall: the shared predecessor matrix
    kernel,         \* process p -> its band (init, stop), its iteration w, its position
    barrier,        \* processes waiting at the barrier
    procs,          \* parallel Dijkstra: process p -> the nodes it has left, what its
                    \* queue thread has not written yet, is_alive(), has it raised
    out_q,          \* parallel Dijkstra: the tuples written to the queue, not yet taken
    attribute_ssspp, \* self.attribute_ssspp: the tuples the collector has taken
    running         \* parallel Dijkstra: the collector's last any(p.is_alive())

vars == <<G, D, status, condition, Service, Type, area, FR, broken, newstatus,
          finalstatus, has_copy, copy_of_self1, bn, nodes_in_area, lst0, lst,
          tables, pc, op, origin, multi_areas, stack, visited, fv_todo, msg, err, failedAt,
          runs, limit, n_of_nodes, n_of_edges, partition, called, arr, arr1, kernel, barrier,
          procs, out_q, attribute_ssspp, running>>

\* the state of the parallel Dijkstra
collect_vars == <<procs, out_q, attribute_ssspp, running>>

\* the state of calculate_shortest_path and of the parallel back-ends
backends == <<n_of_nodes, n_of_edges, partition, called, arr, arr1, kernel, barrier, collect_vars>>

static == <<D, status, condition, Service, Type, area, FR, limit>>

(***************************************************************************)
(* Bounds of the checked input family.                                     *)
(***************************************************************************)
NumNodes == 3       \* nodes of a loaded graph of the general family
MaxEdges == 3       \* edges of a loaded graph of the general family
MaxValves == 1      \* isolating elements in a loaded graph
MaxChain == 4       \* longest chain of the chain family
MaxRuns == 2        \* perturbations run on one loaded graph
Spread == 2         \* orders and sizes taken on each side of a threshold
MaxProcs == 2       \* largest mp.cpu_count() (self.num) of the parallel Floyd-Warshall
MaxRing == 5        \* nodes of the largest ring
MaxWorkers == 6     \* largest mp.cpu_count() (self.num) of the parallel Dijkstra, of chunk_it
MaxWeight == 2      \* largest edge weight of the weighted families (0 is a weight)
MaxList == 15       \* longest node list given to the row partition

\* the Marks of the input files, in file order; a Mark is any string, and one
\* Mark may begin or end another
Marks == <<"A", "B", "C", "D", "E", "F", "AB", "BC">>

Idx(n) == CHOOSE i \in 1..Len(Marks) : Marks[i] = n

FirstMarks(k) == {Marks[i] : i \in 1..k}

Conds == {"SINGLE", "AND", "OR", "ORPHAN"}

Types == {"SOURCE", "HUB", "USER"}

\* self.valv: the descriptions of the isolating elements and their states
valv == [isolation_A |-> [s0 |-> "OPEN", s1 |-> "CLOSED"],
         isolation_B |-> [s0 |-> "CLOSED", s1 |-> "OPEN"],
         unknown |-> [s0 |-> "OFF", s1 |-> "ON"]]

NULL == "NULL"

EmptyMap == [x \in {} |-> x]

Restrict(f, S) == [x \in (DOMAIN f) \cap S |-> f[x]]

Update(f, k, v) == [x \in (DOMAIN f) \cup {k} |-> IF x = k THEN v ELSE f[x]]

RECURSIVE Tabulate(_, _)
Tabulate(f, S) ==
    IF S = {} THEN EmptyMap
    ELSE LET x == CHOOSE y \in S : TRUE
         IN  (x :> f[x]) @@ Tabulate(f, S \ {x})

\* the function f with every value computed (once)
Explicit(f) == Tabulate(f, DOMAIN f)

(***************************************************************************)
(* The graph store (networkx.DiGraph): a record of the node set, the edge  *)
(* set and one map per computed node attribute, each defined on exactly    *)
(* the nodes that carry the attribute.                                     *)
(***************************************************************************)
\* the computed node attributes
NodeAttrs ==
    {"shortest_path", "shpath_length", "efficiency",
     "original_nodal_eff", "original_avg_global_eff", "original_local_eff",
     "closeness_centrality", "betweenness_centrality", "indegree_centrality",
     "outdegree_centrality", "degree_centrality",
     "final_nodal_eff", "final_avg_global_eff", "final_local_eff",
     "IntermediateStatus", "FinalStatus", "Mark_Status", "Status_Area"}

Graph(N, E) ==
    [k \in {"nodes", "edges"} \cup NodeAttrs |->
       IF k = "nodes" THEN N ELSE IF k = "edges" THEN E ELSE EmptyMap]

NoGraph == Graph({}, {})

predecessors(g, n) == {p \in g.nodes : <<p, n>> \in g.edges}

successors(g, n) == {c \in g.nodes : <<n, c>> \in g.edges}

\* DiGraph.remove_node, for each node of R: the node, its attributes and its
\* incident edges go
remove_nodes(g, R) ==
    LET keep == g.nodes \ R
    IN  [k \in DOMAIN g |->
           IF k = "nodes" THEN keep
           ELSE IF k = "edges"
                THEN {e \in g.edges : e[1] \in keep /\ e[2] \in keep}
                ELSE Restrict(g[k], keep)]

\* the attribute names the node n carries: self.nodes[n].keys()
keys(g, n) == {k \in NodeAttrs : n \in DOMAIN g[k]}

RECURSIVE ReachFrom(_, _)
ReachFrom(g, S) ==
    LET T == S \cup {c \in g.nodes : \E n \in S : <<n, c>> \in g.edges}
    IN  IF T = S THEN S ELSE ReachFrom(g, T)

\* nx.has_path
has_path(g, s, t) == t \in ReachFrom(g, {s})

\* the node order of the graph (insertion order of load)
NodeList(g) == SelectSeq(Marks, LAMBDA m : m \in g.nodes)

(***************************************************************************)
(* load(): the state of the object after construction.  The checked input  *)
(* files are those of the general family (every graph on NumNodes nodes    *)
(* with at most MaxEdges edges, the conditions the docstring of load       *)
(* allows on each edge, at most MaxValves isolating elements of any        *)
(* description and status), the chains of the chain family and the plant   *)
(* of the plant family.                                                    *)
(***************************************************************************)
AllPairs(N) == {e \in N \X N : e[1] # e[2]}

\* roots are sources, leaves are users, the rest are hubs
RoleOf(N, E, n) ==
    IF ~ \E p \in N : <<p, n>> \in E THEN "SOURCE"
    ELSE IF ~ \E c \in N : <<n, c>> \in E THEN "USER"
    ELSE "HUB"

\* the object once the file is read, but for the state of the back-ends
load_object(N, E, c, w, d, s, t, a, f, l) ==
    /\ G = Graph(N, E)
    /\ D = d
    /\ status = s
    /\ condition = c
    /\ Service = w
    /\ Type = t
    /\ area = a
    /\ FR = f
    /\ broken = {}
    /\ newstatus = EmptyMap
    /\ finalstatus = EmptyMap
    /\ has_copy = FALSE
    /\ copy_of_self1 = NoGraph
    /\ bn = {}
    /\ nodes_in_area = {}
    /\ lst0 = <<>>
    /\ lst = <<>>
    /\ tables = EmptyMap
    /\ pc = "idle"
    /\ op = "none"
    /\ origin = NULL
    /\ multi_areas = <<>>
    /\ stack = <<>>
    /\ visited = {}
    /\ fv_todo = {}
    /\ msg = ""
    /\ err = "none"
    /\ failedAt = "none"
    /\ runs = 0
    /\ limit = l

load(N, E, c, w, d, s, t, a, f, l) ==
    /\ load_object(N, E, c, w, d, s, t, a, f, l)
    /\ n_of_nodes = 0
    /\ n_of_edges = 0
    /\ partition = <<>>
    /\ called = <<>>
    /\ arr = <<>>
    /\ arr1 = <<>>
    /\ kernel = <<>>
    /\ barrier = 0
    /\ procs = <<>>
    /\ out_q = <<>>
    /\ attribute_ssspp = <<>>
    /\ running = FALSE

\* The conditions load's docstring allows on the edges into a node: SINGLE
\* from an only predecessor, AND or OR from each of several predecessors.
WellFormed(N, E, c) ==
    \A e \in E :
      IF Cardinality({p \in N : <<p, e[2]>> \in E}) = 1
      THEN c[e] = "SINGLE" ELSE c[e] \in {"AND", "OR"}

\* The general family: every graph on NumNodes nodes with at most MaxEdges
\* edges; the isolating elements, at most MaxValves, are the nodes B, C, ...
\* (every other placement is one of these with the nodes renamed).  One
\* perturbation is run on each.
InitGeneral ==
    LET N == FirstMarks(NumNodes)
    IN  \E E \in SUBSET AllPairs(N) :
          /\ Cardinality(E) <= MaxEdges
          /\ \E c \in [E -> Conds] :
               /\ WellFormed(N, E, c)
               /\ \E k \in 0..MaxValves :
                    LET V == {Marks[i] : i \in 2..(k + 1)} \cap N
                    IN  \E vd \in [V -> DOMAIN valv], vs \in [V -> {"0", "1"}] :
                          load(N, E, c, [e \in E |-> 1],
                               [n \in N |-> IF n \in V THEN vd[n] ELSE "pipe"],
                               [n \in N |-> IF n \in V THEN vs[n] ELSE "1"],
                               [n \in N |-> RoleOf(N, E, n)],
                               [n \in N |-> "area1"],
                               [n \in N |-> "0"], 1)

\* The chain family: A -> B -> ... of SINGLE edges, no isolating element.
InitChain ==
    \E k \in 2..MaxChain :
      LET N == FirstMarks(k)
          E == {<<Marks[i], Marks[i + 1]>> : i \in 1..(k - 1)}
      IN  load(N, E, [e \in E |-> "SINGLE"], [e \in E |-> 1],
               [n \in N |-> "pipe"], [n \in N |-> "1"],
               [n \in N |-> RoleOf(N, E, n)],
               [n \in N |-> "area1"], [n \in N |-> "0"], MaxRuns)

\* The plant family: the source A feeds the user D, and the user C both
\* directly and through the isolating element B (OR); A and C lie in area1,
\* B and D in area2; A may be perturbation resistant.
InitPlant ==
    LET N == FirstMarks(4)
        E == {<<"A", "B">>, <<"B", "C">>, <<"A", "C">>, <<"A", "D">>}
        c == [e \in E |-> IF e[2] = "C" THEN "OR" ELSE "SINGLE"]
    IN  \E vd \in DOMAIN valv, vs \in {"0", "1"}, fa \in {"0", "1"} :
          load(N, E, c, [e \in E |-> 1],
               [n \in N |-> IF n = "B" THEN vd ELSE "pipe"],
               [n \in N |-> IF n = "B" THEN vs ELSE "1"],
               [n \in N |-> RoleOf(N, E, n)],
               [n \in N |-> IF n \in {"A", "C"} THEN "area1" ELSE "area2"],
               [n \in N |-> IF n = "A" THEN fa ELSE "0"], MaxRuns)

\* The names family: the sources A and AB feed the users C and BC over any
\* edges that leave no user without a source, all SINGLE, AND or OR as the
\* docstring of load allows; no isolating element, one area.
InitNames ==
    LET S == {"A", "AB"}
        U == {"C", "BC"}
        N == S \cup U
    IN  \E E \in SUBSET (S \X U) :
          /\ \A u \in U : \E s \in S : <<s, u>> \in E
          /\ \E c \in [E -> Conds] :
               /\ WellFormed(N, E, c)
               /\ load(N, E, c, [e \in E |-> 1],
                       [n \in N |-> "pipe"], [n \in N |-> "1"],
                       [n \in N |-> RoleOf(N, E, n)],
                       [n \in N |-> "area1"], [n \in N |-> "0"], MaxRuns)

\* The diamond family: the source A feeds the user C through B and through D,
\* and directly or not; C's edges are OR, the others SINGLE; every edge has a
\* weight (Service) of 0 .. MaxWeight; no isolating element, one area.
InitDiamond ==
    LET N == FirstMarks(4)
        E0 == {<<"A", "B">>, <<"B", "C">>, <<"A", "D">>, <<"D", "C">>}
    IN  \E E \in {E0, E0 \cup {<<"A", "C">>}} :
          \E w \in [E -> 0..MaxWeight] :
            load(N, E, [e \in E |-> IF e[2] = "C" THEN "OR" ELSE "SINGLE"], w,
                 [n \in N |-> "pipe"], [n \in N |-> "1"],
                 [n \in N |-> RoleOf(N, E, n)],
                 [n \in N |-> "area1"], [n \in N |-> "0"], 1)

\* The zones family: the diamond A -> B -> C, A -> D -> C with C's edges OR and
\* the others SINGLE; A is in area1, each of B, C and D in area1 or in area2;
\* C is perturbation resistant or not; no isolating element.
InitZones ==
    LET N == FirstMarks(4)
        E == {<<"A", "B">>, <<"B", "C">>, <<"A", "D">>, <<"D", "C">>}
    IN  \E z \in [N \ {"A"} -> {"area1", "area2"}], fc \in {"0", "1"} :
          load(N, E, [e \in E |-> IF e[2] = "C" THEN "OR" ELSE "SINGLE"],
               [e \in E |-> 1],
               [n \in N |-> "pipe"], [n \in N |-> "1"],
               [n \in N |-> RoleOf(N, E, n)],
               [n \in N |-> IF n = "A" THEN "area1" ELSE z[n]],
               [n \in N |-> IF n = "C" THEN fc ELSE "0"], 1)

\* The weighted family: every graph on NumNodes nodes with at most MaxEdges
\* edges, each with a weight (Service) of 0 .. MaxWeight; the inputs of the
\* shortest-path back-ends.
InitWeighted ==
    LET N == FirstMarks(NumNodes)
    IN  \E E \in SUBSET AllPairs(N) :
          /\ Cardinality(E) <= MaxEdges
          /\ \E w \in [E -> 0..MaxWeight] :
               load(N, E,
                    [e \in E |-> IF Cardinality({p \in N : <<p, e[2]>> \in E}) = 1
                                 THEN "SINGLE" ELSE "AND"],
                    w, [n \in N |-> "pipe"], [n \in N |-> "1"],
                    [n \in N |-> RoleOf(N, E, n)],
                    [n \in N |-> "area1"], [n \in N |-> "0"], 0)

(***************************************************************************)
(* rm_nodes: the depth-first cascade.  One call of rm_nodes(node, visited) *)
(* is RmEnter: it adds the node to visited, updates newstatus and broken   *)
(* and either returns at once or enters its for loop over                  *)
(* set(self[node]) - visited, a set computed once, when the loop starts.   *)
(***************************************************************************)
\* any(p in x for x in self.broken), x a tuple (node, "NULL")
InBroken(p, b) == \E x \in b : p = x[1] \/ p = x[2]

\* rm_nodes without the test len(visited) == 1 on a node fed through OR edges
RmEnter_NoOriginRule(g, node, vis, brk, ns, rep) ==
    LET vis1 == vis \cup {node}
        pred == predecessors(g, node)
        count == Cardinality({p \in pred : InBroken(p, brk)})
        marked == brk \cup {<<node, NULL>>}
        hit == [visited |-> vis1, broken |-> marked, newstatus |-> ns, descend |-> TRUE]
        miss == [visited |-> vis1, broken |-> brk, newstatus |-> ns, descend |-> FALSE]
        ns1 == IF status[node] = "1" THEN Update(ns, node, "0") ELSE ns
    IN  IF D[node] \in DOMAIN valv
        THEN IF Cardinality(vis1) = 1 THEN [hit EXCEPT !.newstatus = ns1]
             ELSE [miss EXCEPT !.newstatus = ns1]
        ELSE IF rep # "OR" \/ Cardinality(pred) - count = 0 THEN hit ELSE miss

\* rm_nodes that asks of an AND node what it asks of an OR node
RmEnter_AndAsOr(g, node, vis, brk, ns, rep) ==
    LET vis1 == vis \cup {node}
        pred == predecessors(g, node)
        count == Cardinality({p \in pred : InBroken(p, brk)})
        marked == brk \cup {<<node, NULL>>}
        hit == [visited |-> vis1, broken |-> marked, newstatus |-> ns, descend |-> TRUE]
        miss == [visited |-> vis1, broken |-> brk, newstatus |-> ns, descend |-> FALSE]
        ns1 == IF status[node] = "1" THEN Update(ns, node, "0") ELSE ns
    IN  IF D[node] \in DOMAIN valv
        THEN IF Cardinality(vis1) = 1 THEN [hit EXCEPT !.newstatus = ns1]
             ELSE [miss EXCEPT !.newstatus = ns1]
        ELSE IF rep \notin {"OR", "AND"} THEN hit
             ELSE IF Cardinality(vis1) = 1 \/ Cardinality(pred) - count = 0 THEN hit
             ELSE miss

\* rm_nodes that marks an OR node as soon as one predecessor is broken
RmEnter_OrAnyBroken(g, node, vis, brk, ns, rep) ==
    LET vis1 == vis \cup {node}
        pred == predecessors(g, node)
        count == Cardinality({p \in pred : InBroken(p, brk)})
        marked == brk \cup {<<node, NULL>>}
        hit == [visited |-> vis1, broken |-> marked, newstatus |-> ns, descend |-> TRUE]
        miss == [visited |-> vis1, broken |-> brk, newstatus |-> ns, descend |-> FALSE]
        ns1 == IF status[node] = "1" THEN Update(ns, node, "0") ELSE ns
    IN  IF D[node] \in DOMAIN valv
        THEN IF Cardinality(vis1) = 1 THEN [hit EXCEPT !.newstatus = ns1]
             ELSE [miss EXCEPT !.newstatus = ns1]
        ELSE IF rep # "OR" THEN hit
             ELSE IF Cardinality(vis1) = 1 \/ count > 0 THEN hit
             ELSE miss

\* rm_nodes without the return at an isolating element that is not the origin
RmEnter_ValvePasses(g, node, vis, brk, ns, rep) ==
    LET vis1 == vis \cup {node}
        pred == predecessors(g, node)
        count == Cardinality({p \in pred : InBroken(p, brk)})
        marked == brk \cup {<<node, NULL>>}
        hit == [visited |-> vis1, broken |-> marked, newstatus |-> ns, descend |-> TRUE]
        miss == [visited |-> vis1, broken |-> brk, newstatus |-> ns, descend |-> FALSE]
        ns1 == IF status[node] = "1" THEN Update(ns, node, "0") ELSE ns
    IN  IF D[node] \in DOMAIN valv
        THEN IF Cardinality(vis1) = 1 THEN [hit EXCEPT !.newstatus = ns1]
             ELSE [miss EXCEPT !.newstatus = ns1, !.descend = TRUE]
        ELSE IF rep # "OR" THEN hit
             ELSE IF Cardinality(vis1) = 1 \/ Cardinality(pred) - count = 0 THEN hit
             ELSE miss

\* rm_nodes that records "0" for every isolating element, whatever its status
RmEnter_AlwaysFlips(g, node, vis, brk, ns, rep) ==
    LET vis1 == vis \cup {node}
        pred == predecessors(g, node)
        count == Cardinality({p \in pred : InBroken(p, brk)})
        marked == brk \cup {<<node, NULL>>}
        hit == [visited |-> vis1, broken |-> marked, newstatus |-> ns, descend |-> TRUE]
        miss == [visited |-> vis1, broken |-> brk, newstatus |-> ns, descend |-> FALSE]
        ns1 == Update(ns, node, "0")
    IN  IF D[node] \in DOMAIN valv
        THEN IF Cardinality(vis1) = 1 THEN [hit EXCEPT !.newstatus = ns1]
             ELSE [miss EXCEPT !.newstatus = ns1]
        ELSE IF rep # "OR" THEN hit
             ELSE IF Cardinality(vis1) = 1 \/ Cardinality(pred) - count = 0 THEN hit
             ELSE miss

\* The effect of the body of rm_nodes above its for loop.  rep is the element
\* list(cond)[0] of the set cond: any element, the order of a set of strings
\* is not fixed.  descend tells whether the call reaches its for loop.
RmEnter(g, node, vis, brk, ns, rep) ==
    LET vis1 == vis \cup {node}
        pred == predecessors(g, node)
        count == Cardinality({p \in pred : InBroken(p, brk)})
        marked == brk \cup {<<node, NULL>>}
    IN  IF D[node] \in DOMAIN valv
        THEN LET ns1 == IF status[node] = "1" THEN Update(ns, node, "0") ELSE ns
             IN  IF Cardinality(vis1) = 1
                 THEN [visited |-> vis1, broken |-> marked, newstatus |-> ns1,
                       descend |-> TRUE]
                 ELSE [visited |-> vis1, broken |-> brk, newstatus |-> ns1,
                       descend |-> FALSE]
        ELSE IF rep # "OR"
             THEN [visited |-> vis1, broken |-> marked, newstatus |-> ns,
                   descend |-> TRUE]
             ELSE IF Cardinality(vis1) = 1
                  THEN [visited |-> vis1, broken |-> marked, newstatus |-> ns,
                        descend |-> TRUE]
                  ELSE IF Cardinality(pred) - count = 0
                       THEN [visited |-> vis1, broken |-> marked,
                             newstatus |-> ns, descend |-> TRUE]
                       ELSE [visited |-> vis1, broken |-> brk,
                             newstatus |-> ns, descend |-> FALSE]

\* the set cond of rm_nodes
CondSet(g, node) ==
    IF predecessors(g, node) = {} THEN {"SINGLE"}
    ELSE {condition[<<p, node>>] : p \in predecessors(g, node)}

\* a call of rm_nodes whose for loop goes to the predecessors of the node as
\* well as to its successors
RmCall_BothDirections(node, stk, vis, brk) ==
    \E rep \in CondSet(G, node) :
      LET r == RmEnter(G, node, vis, brk, newstatus, rep)
      IN  /\ visited' = r.visited
          /\ broken' = r.broken
          /\ newstatus' = r.newstatus
          /\ stack' = IF r.descend
                      THEN Append(stk, [node |-> node,
                                        todo |-> (successors(G, node)
                                                    \cup predecessors(G, node)) \ r.visited])
                      ELSE stk

\* one call rm_nodes(node, vis) made with the frames stk on the stack and the
\* list brk in self.broken
RmCall(node, stk, vis, brk) ==
    \E rep \in CondSet(G, node) :
      LET r == RmEnter(G, node, vis, brk, newstatus, rep)
      IN  /\ visited' = r.visited
          /\ broken' = r.broken
          /\ newstatus' = r.newstatus
          /\ stack' = IF r.descend
                      THEN Append(stk, [node |-> node,
                                        todo |-> successors(G, node) \ r.visited])
                      ELSE stk

(***************************************************************************)
(* Numbers.  Lengths are sums of edge weights; Inf is numpy's inf.         *)
(* Efficiencies are quotients: <<p, q>> is p / q in lowest terms, q > 0.   *)
(***************************************************************************)
Inf == 1000000

Plus(a, b) == IF a = Inf \/ b = Inf THEN Inf ELSE a + b

Min(a, b) == IF a <= b THEN a ELSE b

RECURSIVE GCD(_, _)
GCD(a, b) == IF b = 0 THEN a ELSE GCD(b, a % b)

Abs(a) == IF a < 0 THEN -a ELSE a

Rat(p, q) ==
    LET g == GCD(Abs(p), q)
    IN  IF p = 0 THEN <<0, 1>> ELSE <<p \div g, q \div g>>

RAdd(a, b) == Rat(a[1] * b[2] + b[1] * a[2], a[2] * b[2])

RDiv(a, k) == Rat(a[1], a[2] * k)

RZero == <<0, 1>>

\* 1 / length_path, length_path # 0 (1 / inf is 0.0)
Inverse(l) == IF l = Inf THEN RZero ELSE Rat(1, l)

RECURSIVE RSum(_, _)
\* the sum of f[x] over x in S
RSum(f, S) ==
    IF S = {} THEN RZero
    ELSE LET x == CHOOSE y \in S : TRUE
         IN  RAdd(f[x], RSum(f, S \ {x}))

(***************************************************************************)
(* Floyd-Warshall back-end.  Nodes are relabelled 0 .. n-1 in node order.  *)
(***************************************************************************)
\* self.ids: integer label -> Mark
ids(g, i) == NodeList(g)[i + 1]

\* self.ids_reversed: Mark -> integer label
ids_reversed(g, m) == CHOOSE i \in 0..(Len(NodeList(g)) - 1) : ids(g, i) = m

\* the weight matrix of to_numpy_matrix: 0 where there is no edge
to_numpy_matrix(g, i, j) ==
    IF <<ids(g, i), ids(g, j)>> \in g.edges
    THEN Service[<<ids(g, i), ids(g, j)>>] ELSE 0

floyd_warshall_initialization(g) ==
    LET n == Cardinality(g.nodes)
        R == 0..(n - 1)
    IN  [dist |-> Explicit([i \in R, j \in R |->
                     IF i = j THEN 0
                     ELSE IF to_numpy_matrix(g, i, j) = 0 THEN Inf
                     ELSE to_numpy_matrix(g, i, j)]),
         pred |-> Explicit([i \in R, j \in R |->
                     IF <<ids(g, i), ids(g, j)>> \in g.edges THEN i ELSE Inf])]

\* one iteration w of the kernel on the rows init .. stop-1: the sums are
\* taken from the matrix as it is when the iteration starts
floyd_warshall_iteration(m, n, w, init, stop) ==
    LET R == 0..(n - 1)
        band == init..(stop - 1)
        nd == Explicit([i \in R, j \in R |->
                 IF i \in band
                 THEN Min(Plus(m.dist[i, w], m.dist[w, j]), m.dist[i, j])
                 ELSE m.dist[i, j]])
    IN  [dist |-> nd,
         pred |-> Explicit([i \in R, j \in R |->
                     IF i \in band /\ nd[i, j] # m.dist[i, j]
                     THEN m.pred[w, j] ELSE m.pred[i, j]])]

RECURSIVE floyd_warshall_kernel(_, _, _, _, _)
\* for w in range(n), from iteration w on
floyd_warshall_kernel(m, n, w, init, stop) ==
    IF w >= n THEN m
    ELSE floyd_warshall_kernel(floyd_warshall_iteration(m, n, w, init, stop),
                               n, w + 1, init, stop)

RECURSIVE WalkPred(_, _, _, _, _)
\* the while loop of ConstructPath: path so far (target first), curr its last
\* element.  int(inf) raises OverflowError; a walk longer than the node count
\* never ends.
WalkPred(pred, source, curr, path, fuel) ==
    IF curr = source THEN [kind |-> "ok", path |-> path]
    ELSE IF fuel = 0 THEN [kind |-> "loop", path |-> path]
    ELSE IF pred[source, curr] = Inf THEN [kind |-> "OverflowError", path |-> path]
    ELSE WalkPred(pred, source, pred[source, curr],
                  Append(path, pred[source, curr]), fuel - 1)

Reverse(q) == [i \in 1..Len(q) |-> q[Len(q) + 1 - i]]

\* ConstructPath: the path of Marks from source to target, [] when there is none
ConstructPath(g, source, target, pred) ==
    IF source = target THEN [kind |-> "ok", path |-> <<ids(g, source)>>]
    ELSE IF pred[source, target] = Inf THEN [kind |-> "ok", path |-> <<>>]
    ELSE LET r == WalkPred(pred, source, pred[source, target],
                           <<target, pred[source, target]>>,
                           Cardinality(g.nodes))
         IN  [kind |-> r.kind,
              path |-> Reverse([i \in 1..Len(r.path) |-> ids(g, r.path[i])])]

\* the efficiency list of a node from its shpath_length map
efficiency_of(lengths) ==
    Explicit([t \in DOMAIN lengths |->
                IF lengths[t] # 0 THEN Inverse(lengths[t]) ELSE RZero])

\* floyd_warshall_predecessor_and_distance_serial: the three path attributes
\* of every node, or the exception a path reconstruction raises
fw_paths(g, pred) ==
    LET R == 0..(Cardinality(g.nodes) - 1)
    IN  Explicit([i \in R |-> Explicit([j \in R |-> ConstructPath(g, i, j, pred)])])

fw_shortest_path(g, rec) ==
    Explicit([k \in g.nodes |->
        Explicit([t \in {t \in g.nodes :
                          rec[ids_reversed(g, k)][ids_reversed(g, t)].path # <<>>} |->
                    rec[ids_reversed(g, k)][ids_reversed(g, t)].path])])

fw_shpath_length(g, sp, dist) ==
    Explicit([k \in g.nodes |->
        Explicit([t \in DOMAIN sp[k] |->
            dist[ids_reversed(g, sp[k][t][1]),
                 ids_reversed(g, sp[k][t][Len(sp[k][t])])]])])

\* fw_attributes that adds the new paths to the paths a node already has
fw_attributes_KeepsStale(g, rec, sp, sl) ==
    LET R == 0..(Cardinality(g.nodes) - 1)
        bad == {rec[i][j].kind : i \in R, j \in R} \ {"ok"}
        old(k) == IF k \in DOMAIN g.shortest_path THEN g.shortest_path[k] ELSE EmptyMap
    IN  IF bad # {}
        THEN [err |-> CHOOSE b \in bad : TRUE, g |-> g]
        ELSE [err |-> "none",
              g |-> [g EXCEPT !.shortest_path =
                                  Explicit([k \in g.nodes |->
                                      Explicit([t \in (DOMAIN old(k)) \cup (DOMAIN sp[k]) |->
                                          IF t \in DOMAIN sp[k] THEN sp[k][t]
                                          ELSE old(k)[t]])]),
                              !.shpath_length = sl,
                              !.efficiency =
                                  Explicit([k \in g.nodes |-> efficiency_of(sl[k])])]]

fw_attributes(g, rec, sp, sl) ==
    LET R == 0..(Cardinality(g.nodes) - 1)
        bad == {rec[i][j].kind : i \in R, j \in R} \ {"ok"}
    IN  IF bad # {}
        THEN [err |-> CHOOSE b \in bad : TRUE, g |-> g]
        ELSE [err |-> "none",
              g |-> [g EXCEPT !.shortest_path = sp, !.shpath_length = sl,
                              !.efficiency =
                                  Explicit([k \in g.nodes |-> efficiency_of(sl[k])])]]

fw_lengths(g, m, rec, sp) ==
    fw_attributes(g, rec, sp, fw_shpath_length(g, sp, m.dist))

fw_populate(g, m, rec) == fw_lengths(g, m, rec, fw_shortest_path(g, rec))

fw_reconstruct(g, m) == fw_populate(g, m, fw_paths(g, m.pred))

floyd_warshall_predecessor_and_distance_serial(g) ==
    fw_reconstruct(g, floyd_warshall_kernel(floyd_warshall_initialization(g),
                                           Cardinality(g.nodes), 0, 0,
                                           Cardinality(g.nodes)))

(***************************************************************************)
(* Dijkstra back-end: networkx single_source_dijkstra.  The fringe holds   *)
(* (distance, counter, node); the smallest is popped first.                *)
(***************************************************************************)
SuccList(g, v) == SelectSeq(Marks, LAMBDA m : m \in successors(g, v))

FringeMin(F) ==
    CHOOSE e \in F : \A f \in F :
        e[1] < f[1] \/ (e[1] = f[1] /\ e[2] <= f[2])

RECURSIVE DijkstraRelax(_, _, _, _)
\* the loop over the successors of v, from the i-th on
DijkstraRelax(g, st, v, i) ==
    IF i > Len(SuccList(g, v)) THEN st
    ELSE LET u == SuccList(g, v)[i]
             vu == st.dist[v] + Service[<<v, u>>]
         IN  IF u \notin DOMAIN st.dist
                /\ (u \notin DOMAIN st.seen \/ vu < st.seen[u])
             THEN DijkstraRelax(g,
                    [st EXCEPT !.seen = Update(st.seen, u, vu),
                               !.c = st.c + 1,
                               !.fringe = st.fringe \cup {<<vu, st.c, u>>},
                               !.paths = Update(st.paths, u, Append(st.paths[v], u))],
                    v, i + 1)
             ELSE DijkstraRelax(g, st, v, i + 1)

RECURSIVE DijkstraLoop(_, _)
DijkstraLoop(g, st) ==
    IF st.fringe = {} THEN st
    ELSE LET e == FringeMin(st.fringe)
             st1 == [st EXCEPT !.fringe = st.fringe \ {e}]
         IN  IF e[3] \in DOMAIN st.dist THEN DijkstraLoop(g, st1)
             ELSE DijkstraLoop(g,
                    DijkstraRelax(g, [st1 EXCEPT !.dist = Update(st.dist, e[3], e[1])],
                                  e[3], 1))

\* (lengths, paths) from the source n
single_source_dijkstra(g, n) ==
    DijkstraLoop(g, [dist |-> EmptyMap,
                     seen |-> [x \in {n} |-> 0],
                     paths |-> [x \in {n} |-> <<n>>],
                     fringe |-> {<<0, 0, n>>},
                     c |-> 1])

single_source_shortest_path_serial(g) ==
    LET r == Explicit([n \in g.nodes |-> single_source_dijkstra(g, n)])
    IN  [err |-> "none",
         g |-> [g EXCEPT !.shortest_path = Explicit([n \in g.nodes |-> r[n].paths]),
                         !.shpath_length = Explicit([n \in g.nodes |-> r[n].dist]),
                         !.efficiency =
                             Explicit([n \in g.nodes |-> efficiency_of(r[n].dist)])]]

(***************************************************************************)
(* calculate_shortest_path: the choice of the back-end.                    *)
(***************************************************************************)
ParallelThreshold == 10000

DensityScale == 1000000

\* nx.density(self) <= 0.000001, density = m / (n (n - 1)), 0 when m = 0 or n <= 1
\* backends_called that goes parallel from ParallelThreshold nodes on
backends_called_FromThreshold(n, m) ==
    IF n >= ParallelThreshold
    THEN IF m = 0 \/ n <= 1 \/ m * DensityScale <= n * (n - 1)
         THEN <<"parallel_wrapper_proc">>
         ELSE <<"floyd_warshall_predecessor_and_distance_parallel">>
    ELSE IF m = 0 \/ n <= 1 \/ m * DensityScale <= n * (n - 1)
         THEN <<"single_source_shortest_path_serial">>
         ELSE <<"floyd_warshall_predecessor_and_distance_serial">>

\* nx.density(self) <= 0.000001 for a directed graph of n nodes and m edges;
\* the density is 0 when there is no edge or at most one node
density_is_low(n, m) == m = 0 \/ n <= 1 \/ m * DensityScale <= n * (n - 1)

\* the back-ends calculate_shortest_path calls, in order, for n nodes and m edges
backends_called(n, m) ==
    IF n > ParallelThreshold
    THEN IF density_is_low(n, m)
         THEN <<"parallel_wrapper_proc">>
         ELSE <<"floyd_warshall_predecessor_and_distance_parallel">>
    ELSE IF density_is_low(n, m)
         THEN <<"single_source_shortest_path_serial">>
         ELSE <<"floyd_warshall_predecessor_and_distance_serial">>

sparse(g) == density_is_low(Cardinality(g.nodes), Cardinality(g.edges))

backend(g) == backends_called(Cardinality(g.nodes), Cardinality(g.edges))[1]

\* the parallel back-ends, when no worker fails, leave the attributes of the
\* serial ones
calculate_shortest_path(g) ==
    IF backend(g) \in {"parallel_wrapper_proc", "single_source_shortest_path_serial"}
    THEN single_source_shortest_path_serial(g)
    ELSE floyd_warshall_predecessor_and_distance_serial(g)

(***************************************************************************)
(* Efficiencies.  Each takes and returns [err, g, c]: the live graph, the  *)
(* snapshot and the exception raised, "none" when there is none.           *)
(***************************************************************************)
Blank == <<" ">>

MergeMap(f, h) ==
    Explicit([x \in (DOMAIN f) \cup (DOMAIN h) |-> IF x \in DOMAIN h THEN h[x] ELSE f[x]])

first_node(g) == NodeList(g)[1]

\* sum of the efficiency list of v over g_len - 1
nodal_value(g, v) ==
    RDiv(RSum(g.efficiency[v], DOMAIN g.efficiency[v]), Cardinality(g.nodes) - 1)

\* nodal_eff that gives the removed nodes the value 0 in place of the blank
nodal_eff_ZeroForDeleted(x) ==
    LET g == x.g
        c == x.c
        g_len == Cardinality(g.nodes)
        blanks == [v \in c.nodes \ g.nodes |-> RZero]
    IN  IF g_len = 0 THEN [x EXCEPT !.err = "IndexError"]
        ELSE IF "original_nodal_eff" \in keys(g, first_node(g))
        THEN LET c1 == [c EXCEPT !.final_nodal_eff = MergeMap(@, blanks)]
             IN  IF g_len = 1
                 THEN [err |-> "ZeroDivisionError", g |-> g, c |-> c1]
                 ELSE [err |-> "none", g |-> g,
                       c |-> [c1 EXCEPT !.final_nodal_eff =
                                MergeMap(@, Explicit([v \in g.nodes |-> nodal_value(g, v)]))]]
        ELSE IF g_len = 1 THEN [x EXCEPT !.err = "ZeroDivisionError"]
        ELSE [x EXCEPT !.g.original_nodal_eff =
                           Explicit([v \in g.nodes |-> nodal_value(g, v)])]

nodal_eff(x) ==
    LET g == x.g
        c == x.c
        g_len == Cardinality(g.nodes)
        blanks == [v \in c.nodes \ g.nodes |-> Blank]
    IN  IF g_len = 0 THEN [x EXCEPT !.err = "IndexError"]
        ELSE IF "original_nodal_eff" \in keys(g, first_node(g))
        THEN LET c1 == [c EXCEPT !.final_nodal_eff = MergeMap(@, blanks)]
             IN  IF g_len = 1
                 THEN [err |-> "ZeroDivisionError", g |-> g, c |-> c1]
                 ELSE [err |-> "none", g |-> g,
                       c |-> [c1 EXCEPT !.final_nodal_eff =
                                MergeMap(@, Explicit([v \in g.nodes |-> nodal_value(g, v)]))]]
        ELSE IF g_len = 1 THEN [x EXCEPT !.err = "ZeroDivisionError"]
        ELSE [x EXCEPT !.g.original_nodal_eff =
                           Explicit([v \in g.nodes |-> nodal_value(g, v)])]

\* global_eff that, once a snapshot exists, stores the average of the reduced
\* graph under original_avg_global_eff of the snapshot as well
global_eff_WritesOriginal(x) ==
    LET g == x.g
        c == x.c
        avg == RDiv(RSum(g.original_nodal_eff, g.nodes), Cardinality(g.nodes))
    IN  IF "original_avg_global_eff" \in keys(g, first_node(g))
        THEN [x EXCEPT !.c.final_avg_global_eff = Explicit([v \in c.nodes |-> avg]),
                       !.c.original_avg_global_eff = Explicit([v \in c.nodes |-> avg])]
        ELSE [x EXCEPT !.g.original_avg_global_eff = Explicit([v \in g.nodes |-> avg])]

global_eff(x) ==
    LET g == x.g
        c == x.c
        avg == RDiv(RSum(g.original_nodal_eff, g.nodes), Cardinality(g.nodes))
    IN  IF "original_avg_global_eff" \in keys(g, first_node(g))
        THEN [x EXCEPT !.c.final_avg_global_eff = Explicit([v \in c.nodes |-> avg])]
        ELSE [x EXCEPT !.g.original_avg_global_eff = Explicit([v \in g.nodes |-> avg])]

\* the mean of the attribute a over the successors of v, 0 without successors
local_value(g, a, v) ==
    IF successors(g, v) = {} THEN RZero
    ELSE RDiv(RSum(a, successors(g, v)), Cardinality(successors(g, v)))

local_eff(x) ==
    LET g == x.g
        c == x.c
        blanks == [v \in c.nodes \ g.nodes |-> Blank]
    IN  IF "original_local_eff" \in keys(g, first_node(g))
        THEN [x EXCEPT !.c.final_local_eff =
                MergeMap(MergeMap(@, blanks),
                         Explicit([v \in g.nodes |-> local_value(g, c.final_nodal_eff, v)]))]
        ELSE [x EXCEPT !.g.original_local_eff =
                Explicit([v \in g.nodes |-> local_value(g, g.original_nodal_eff, v)])]

\* calculate_shortest_path, nodal_eff, global_eff, local_eff in this order
indicators(g, c) ==
    LET a == calculate_shortest_path(g)
        b == nodal_eff([err |-> "none", g |-> a.g, c |-> c])
    IN  IF a.err # "none" THEN [err |-> a.err, g |-> a.g, c |-> c]
        ELSE IF b.err # "none" THEN b
        ELSE local_eff(global_eff(b))

(***************************************************************************)
(* Centralities.                                                           *)
(***************************************************************************)
\* the shortest paths with more than one node, as (source, target) pairs
tot_shortest_paths_list(g) ==
    {st \in g.nodes \X g.nodes :
        /\ st[2] \in DOMAIN g.shortest_path[st[1]]
        /\ Len(g.shortest_path[st[1]][st[2]]) > 1}

InPath(n, q) == \E i \in 1..Len(q) : q[i] = n

RECURSIVE LenSum(_, _)
\* sum(totsp): the lengths of the shortest paths of the pairs in S
LenSum(g, S) ==
    IF S = {} THEN 0
    ELSE LET st == CHOOSE y \in S : TRUE
         IN  Plus(g.shpath_length[st[1]][st[2]], LenSum(g, S \ {st}))

closeness_value(g, node) ==
    LET sp == {st \in tot_shortest_paths_list(g) :
                  LET q == g.shortest_path[st[1]][st[2]]
                  IN  InPath(node, q) /\ node = q[Len(q)]}
        k == Cardinality(sp)
        total == LenSum(g, sp)
    IN  IF total = 0 \/ total = Inf THEN RZero
        ELSE Rat(k * k, total * (Cardinality(g.nodes) - 1))

closeness_centrality(g) ==
    [g EXCEPT !.closeness_centrality = Explicit([n \in g.nodes |-> closeness_value(g, n)])]

\* betweenness_value that also counts the paths that start at the node
betweenness_value_CountsSource(g, node) ==
    LET sp == {st \in tot_shortest_paths_list(g) :
                  LET q == g.shortest_path[st[1]][st[2]]
                  IN  InPath(node, q) /\ node # q[Len(q)]}
    IN  Rat(Cardinality(sp), Cardinality(tot_shortest_paths_list(g)))

betweenness_value(g, node) ==
    LET sp == {st \in tot_shortest_paths_list(g) :
                  LET q == g.shortest_path[st[1]][st[2]]
                  IN  InPath(node, q) /\ node # q[1] /\ node # q[Len(q)]}
    IN  Rat(Cardinality(sp), Cardinality(tot_shortest_paths_list(g)))

\* [err, g]: ZeroDivisionError when no shortest path has more than one node
betweenness_centrality(g) ==
    IF g.nodes # {} /\ tot_shortest_paths_list(g) = {}
    THEN [err |-> "ZeroDivisionError", g |-> g]
    ELSE [err |-> "none",
          g |-> [g EXCEPT !.betweenness_centrality =
                            Explicit([n \in g.nodes |-> betweenness_value(g, n)])]]

RECURSIVE WeightSum(_)
WeightSum(E) ==
    IF E = {} THEN 0
    ELSE LET e == CHOOSE y \in E : TRUE IN Service[e] + WeightSum(E \ {e})

in_degree(g, n) == WeightSum({e \in g.edges : e[2] = n})

out_degree(g, n) == WeightSum({e \in g.edges : e[1] = n})

degree(g, n) == in_degree(g, n) + out_degree(g, n)

indegree_centrality(g) ==
    [g EXCEPT !.indegree_centrality =
       [n \in g.nodes |-> IF in_degree(g, n) > 0
                          THEN Rat(in_degree(g, n), Cardinality(g.nodes) - 1)
                          ELSE RZero]]

outdegree_centrality(g) ==
    [g EXCEPT !.outdegree_centrality =
       [n \in g.nodes |-> IF out_degree(g, n) > 0
                          THEN Rat(out_degree(g, n), Cardinality(g.nodes) - 1)
                          ELSE RZero]]

degree_centrality(g) ==
    [g EXCEPT !.degree_centrality =
       [n \in g.nodes |-> Rat(degree(g, n), Cardinality(g.nodes) - 1)]]

(***************************************************************************)
(* The service-path rows of check_before and check_after.  A path-valued   *)
(* field holds either the literal NO_PATH or a value.                      *)
(***************************************************************************)
NO_PATH(filler) == [no_path |-> TRUE, v |-> filler]

Val(x) == [no_path |-> FALSE, v |-> x]

RECURSIVE all_simple_paths_from(_, _, _, _)
\* the simple paths from s to t that avoid the nodes of seen
all_simple_paths_from(g, s, t, seen) ==
    IF s = t THEN {<<s>>}
    ELSE UNION {{<<s>> \o q : q \in all_simple_paths_from(g, c, t, seen \cup {c})} :
                c \in successors(g, s) \ seen}

\* nx.all_simple_paths: none when the source is the target
all_simple_paths(g, s, t) ==
    IF s = t THEN {} ELSE all_simple_paths_from(g, s, t, {s})

\* self.services_SOURCE, self.services_USER: the lists load() builds
services_SOURCE == SelectSeq(Marks, LAMBDA m : m \in DOMAIN Type /\ Type[m] = "SOURCE")

services_USER == SelectSeq(Marks, LAMBDA m : m \in DOMAIN Type /\ Type[m] = "USER")

\* the (SOURCE, USER) pairs in the order of the two nested loops
service_pairs ==
    [k \in 1..(Len(services_SOURCE) * Len(services_USER)) |->
       <<services_SOURCE[((k - 1) \div Len(services_USER)) + 1],
         services_USER[((k - 1) % Len(services_USER)) + 1]>>]

connected(g, i, j) == i \in g.nodes /\ j \in g.nodes /\ has_path(g, i, j)

\* the exception the row of the pair (i, j) raises, "none" if it is built
row_error(g, i, j) ==
    IF ~connected(g, i, j) THEN "none"
    ELSE IF j \notin DOMAIN g.shortest_path[i] \/ j \notin DOMAIN g.shpath_length[i]
         THEN "KeyError"
    ELSE IF g.shpath_length[i][j] = 0 THEN "ZeroDivisionError"
    ELSE "none"

row_before(g, i, j) ==
    IF connected(g, i, j)
    THEN [from |-> i, to |-> j, ids |-> i \o j,
          original_shortest_path_length |-> Val(g.shpath_length[i][j]),
          original_shortest_path |-> Val(g.shortest_path[i][j]),
          original_simple_path |-> Val(all_simple_paths(g, i, j)),
          original_pair_efficiency |-> Val(Inverse(g.shpath_length[i][j]))]
    ELSE [from |-> i, to |-> j, ids |-> i \o j,
          original_shortest_path_length |-> NO_PATH(0),
          original_shortest_path |-> NO_PATH(<<>>),
          original_simple_path |-> NO_PATH({}),
          original_pair_efficiency |-> NO_PATH(RZero)]

row_after(g, n, OD) ==
    IF connected(g, n, OD)
    THEN [from |-> n, area |-> area[n], to |-> OD, ids |-> n \o OD,
          final_shortest_path_length |-> Val(g.shpath_length[n][OD]),
          final_shortest_path |-> Val(g.shortest_path[n][OD]),
          final_simple_path |-> Val(all_simple_paths(g, n, OD)),
          final_pair_efficiency |-> Val(Inverse(g.shpath_length[n][OD]))]
    ELSE [from |-> n, area |-> area[n], to |-> OD, ids |-> n \o OD,
          final_shortest_path_length |-> NO_PATH(0),
          final_shortest_path |-> NO_PATH(<<>>),
          final_simple_path |-> NO_PATH({}),
          final_pair_efficiency |-> NO_PATH(RZero)]

\* the first pair, from the k-th on, whose row raises; 0 if none does
RECURSIVE first_error(_, _)
first_error(g, k) ==
    IF k > Len(service_pairs) THEN 0
    ELSE IF row_error(g, service_pairs[k][1], service_pairs[k][2]) # "none" THEN k
    ELSE first_error(g, k + 1)

\* the nodes on the simple paths from n to OD
set_sip(g, n, OD) ==
    UNION {{q[i] : i \in 1..Len(q)} : q \in all_simple_paths(g, n, OD)}

\* check_after on one connected pair: every valve of set_sip that is closed
\* (by newstatus, or by its status when newstatus has no entry) is re-opened
reopen(g, n, OD, ns, fs) ==
    LET V == {v \in set_sip(g, n, OD) :
                /\ D[v] \in DOMAIN valv
                /\ IF v \in DOMAIN ns THEN ns[v] = "0" ELSE status[v] = "0"}
    IN  MergeMap(fs, [v \in V |-> "1"])

RECURSIVE reopen_pairs(_, _, _, _)
\* the valve updates of the pairs k .. last
reopen_pairs(g, k, last, fs) ==
    IF k > last THEN fs
    ELSE LET n == service_pairs[k][1]
             OD == service_pairs[k][2]
         IN  reopen_pairs(g, k + 1, last,
                          IF connected(g, n, OD) THEN reopen(g, n, OD, newstatus, fs)
                          ELSE fs)

\* merge_lists(l1, l2, "ids"): the rows of l1 + l2 merged by ids, a later row
\* updating the fields of an earlier one
merge_lists(l1, l2) ==
    LET all == l1 \o l2
        K == {all[i].ids : i \in 1..Len(all)}
        fold[i \in 0..Len(all)] ==
            [k \in K |->
               IF i = 0 THEN EmptyMap
               ELSE IF all[i].ids = k THEN MergeMap(fold[i - 1][k], all[i])
               ELSE fold[i - 1][k]]
    IN  fold[Len(all)]

\* update_status: the snapshot with the field written on every node, or KeyError
\* when a key of which_status is not a node of the snapshot
update_status(c, which_status, field, already_updated) ==
    LET ws == Restrict(which_status, (DOMAIN which_status) \ already_updated)
        os_keys == c.nodes \ DOMAIN ws
    IN  IF DOMAIN which_status = {}
        THEN [err |-> "none",
              c |-> [c EXCEPT ![field] = [n \in c.nodes |-> " "]]]
        ELSE IF ~(DOMAIN ws \subseteq c.nodes)
        THEN [err |-> "KeyError", c |-> c]
        ELSE [err |-> "none",
              c |-> [c EXCEPT ![field] =
                       [n \in c.nodes |-> IF n \in DOMAIN ws THEN ws[n] ELSE " "]]]

\* the rows graph_characterization_tofile writes, one per snapshot node
characterization(c) ==
    [n \in c.nodes |->
       [Mark |-> n, Description |-> D[n], InitStatus |-> status[n],
        IntermediateStatus |-> c.IntermediateStatus[n],
        FinalStatus |-> c.FinalStatus[n],
        Mark_Status |-> c.Mark_Status[n],
        PerturbationResistant |-> FR[n], Area |-> area[n],
        Status_Area |-> c.Status_Area[n],
        closeness_centrality |-> c.closeness_centrality[n],
        betweenness_centrality |-> c.betweenness_centrality[n],
        indegree_centrality |-> c.indegree_centrality[n],
        original_local_eff |-> c.original_local_eff[n],
        final_local_eff |-> c.final_local_eff[n],
        original_global_eff |-> c.original_nodal_eff[n],
        final_global_eff |-> c.final_nodal_eff[n],
        original_avg_global_eff |-> c.original_avg_global_eff[n],
        final_avg_global_eff |-> c.final_avg_global_eff[n]]]

\* KeyError of graph_characterization_tofile: a snapshot node lacks a field
characterization_error(c) ==
    LET fields == {"IntermediateStatus", "FinalStatus", "Mark_Status", "Status_Area",
                   "closeness_centrality", "betweenness_centrality",
                   "indegree_centrality", "original_local_eff", "final_local_eff",
                   "original_nodal_eff", "final_nodal_eff",
                   "original_avg_global_eff", "final_avg_global_eff"}
    IN  IF \A n \in c.nodes : fields \subseteq keys(c, n) THEN "none" ELSE "KeyError"

(***************************************************************************)
(* The workflows.                                                          *)
(***************************************************************************)
AreaNames == {"area1", "area2", "area3"}

MaxAreas == 2

\* the lists of areas passed to simulate_multi_area_perturbation: no area twice
AreaLists ==
    {l \in UNION {[1..k -> AreaNames] : k \in 0..MaxAreas} :
        \A i, j \in 1..Len(l) : l[i] = l[j] => i = j}

AllMarks == {Marks[i] : i \in 1..Len(Marks)}

Raise(e, at) == pc' = "fault" /\ err' = e /\ failedAt' = at

NoRaise == UNCHANGED <<err, failedAt>>

cascade_vars == <<broken, newstatus, stack, visited>>

\* delete_a_node that takes the snapshot before it looks for the node
delete_a_node_SnapshotFirst(node) ==
    /\ pc \in {"idle", "done"}
    /\ runs < limit
    /\ copy_of_self1' = G
    /\ has_copy' = TRUE
    /\ IF node \in G.nodes
       THEN /\ op' = "delete"
            /\ origin' = node
            /\ pc' = "check_before"
            /\ runs' = runs + 1
            /\ UNCHANGED msg
       ELSE /\ msg' = "The node is not in the graph"
            /\ UNCHANGED <<op, origin, pc, runs>>
    /\ NoRaise
    /\ UNCHANGED <<G, static, backends, cascade_vars, finalstatus,
                   bn, nodes_in_area, lst0, lst, tables, multi_areas, fv_todo>>

\* delete_a_node(node), up to its first step
delete_a_node(node) ==
    /\ pc \in {"idle", "done"}
    /\ runs < limit
    /\ IF node \in G.nodes
       THEN /\ op' = "delete"
            /\ origin' = node
            /\ pc' = "check_before"
            /\ runs' = runs + 1
            /\ UNCHANGED msg
       ELSE /\ msg' = "The node is not in the graph"
            /\ UNCHANGED <<op, origin, pc, runs>>
    /\ NoRaise
    /\ UNCHANGED <<G, static, backends, cascade_vars, finalstatus, has_copy, copy_of_self1,
                   bn, nodes_in_area, lst0, lst, tables, multi_areas, fv_todo>>

\* the index of the first area of the list that labels no node, 0 if none
RECURSIVE first_invalid(_, _)
first_invalid(areas, k) ==
    IF k > Len(areas) THEN 0
    ELSE IF ~ \E n \in DOMAIN area : area[n] = areas[k] THEN k
    ELSE first_invalid(areas, k + 1)

\* simulate_multi_area_perturbation that passes over an area that labels no
\* node instead of ending
simulate_multi_area_perturbation_SkipInvalid(areas) ==
    /\ pc \in {"idle", "done"}
    /\ runs < limit
    /\ nodes_in_area' =
          {n \in DOMAIN area : \E i \in 1..Len(areas) : area[n] = areas[i]}
    /\ pc' = "check_before"
    /\ NoRaise
    /\ msg' = IF \E i \in 1..Len(areas) : \A n \in DOMAIN area : area[n] # areas[i]
              THEN "The area is not in the graph" ELSE msg
    /\ op' = "area"
    /\ multi_areas' = areas
    /\ runs' = runs + 1
    /\ UNCHANGED <<G, static, backends, cascade_vars, finalstatus, has_copy, copy_of_self1,
                   bn, lst0, lst, tables, origin, fv_todo>>

\* simulate_multi_area_perturbation(areas), up to its first step: the loop
\* that validates the areas and fills self.nodes_in_area
simulate_multi_area_perturbation(areas) ==
    /\ pc \in {"idle", "done"}
    /\ runs < limit
    /\ LET k == first_invalid(areas, 1)
           upto == IF k = 0 THEN Len(areas) ELSE k - 1
       IN  /\ nodes_in_area' =
                 {n \in DOMAIN area : \E i \in 1..upto : area[n] = areas[i]}
           /\ IF k = 0
              THEN /\ pc' = "check_before"
                   /\ NoRaise
                   /\ UNCHANGED msg
              ELSE /\ msg' = "The area is not in the graph"
                   /\ Raise("SystemExit", "validate")
    /\ op' = "area"
    /\ multi_areas' = areas
    /\ runs' = runs + 1
    /\ UNCHANGED <<G, static, backends, cascade_vars, finalstatus, has_copy, copy_of_self1,
                   bn, lst0, lst, tables, origin, fv_todo>>

\* the rows 1 .. k of the pairs
rows_upto(g, k, row(_, _, _)) ==
    [i \in 1..k |-> row(g, service_pairs[i][1], service_pairs[i][2])]

check_before ==
    /\ pc = "check_before"
    /\ LET r == indicators(G, copy_of_self1)
           k == first_error(r.g, 1)
       IN  /\ G' = r.g
           /\ copy_of_self1' = r.c
           /\ IF r.err # "none"
              THEN /\ lst0' = IF r.err = "IndexError" \/ r.err = "ZeroDivisionError"
                              THEN <<>> ELSE lst0
                   /\ Raise(r.err, "check_before")
              ELSE IF k # 0
              THEN /\ lst0' = rows_upto(r.g, k - 1, row_before)
                   /\ Raise(row_error(r.g, service_pairs[k][1], service_pairs[k][2]),
                            "check_before")
              ELSE /\ lst0' = rows_upto(r.g, Len(service_pairs), row_before)
                   /\ pc' = "centralities"
                   /\ NoRaise
    /\ UNCHANGED <<static, backends, cascade_vars, finalstatus, has_copy, bn, nodes_in_area,
                   lst, tables, op, origin, multi_areas, fv_todo, msg, runs>>

\* closeness, betweenness, indegree and, in delete_a_node, outdegree and degree
centralities ==
    /\ pc = "centralities"
    /\ LET g1 == closeness_centrality(G)
           b == betweenness_centrality(g1)
           g3 == indegree_centrality(b.g)
       IN  IF b.err # "none"
           THEN G' = g1 /\ Raise(b.err, "centralities")
           ELSE /\ G' = IF op = "delete"
                        THEN degree_centrality(outdegree_centrality(g3)) ELSE g3
                /\ pc' = "snapshot"
                /\ NoRaise
    /\ UNCHANGED <<static, backends, cascade_vars, finalstatus, has_copy, copy_of_self1, bn,
                   nodes_in_area, lst0, lst, tables, op, origin, multi_areas,
                   fv_todo, msg, runs>>

\* the snapshot step that lets the perturbation resistant nodes of the areas
\* fail like the others
snapshot_ResistantFails ==
    /\ pc = "snapshot"
    /\ copy_of_self1' = G
    /\ has_copy' = TRUE
    /\ IF op = "delete"
       THEN pc' = "propagate" /\ UNCHANGED fv_todo
       ELSE /\ fv_todo' = nodes_in_area
            /\ pc' = IF nodes_in_area = {} THEN "check_after" ELSE "area_loop"
    /\ NoRaise
    /\ UNCHANGED <<G, static, backends, cascade_vars, finalstatus, bn, nodes_in_area, lst0,
                   lst, tables, op, origin, multi_areas, msg, runs>>

\* self.copy_of_self1 = copy.deepcopy(self); in the area workflow the list
\* FV_nodes_in_area is built next
snapshot ==
    /\ pc = "snapshot"
    /\ copy_of_self1' = G
    /\ has_copy' = TRUE
    /\ IF op = "delete"
       THEN pc' = "propagate" /\ UNCHANGED fv_todo
       ELSE LET FR_nodes == {n \in DOMAIN FR : FR[n] = "1"}
                FV_nodes_in_area == nodes_in_area \ FR_nodes
            IN  /\ fv_todo' = FV_nodes_in_area
                /\ pc' = IF FV_nodes_in_area = {} THEN "check_after" ELSE "area_loop"
    /\ NoRaise
    /\ UNCHANGED <<G, static, backends, cascade_vars, finalstatus, bn, nodes_in_area, lst0,
                   lst, tables, op, origin, multi_areas, msg, runs>>

\* the first rm_nodes call that takes the perturbed node out of the graph as
\* soon as the cascade starts
propagate_RemovesOrigin ==
    /\ pc = "propagate"
    /\ RmCall(origin, <<>>, {}, broken)
    /\ pc' = IF stack' = <<>> THEN "remove" ELSE "rm_nodes"
    /\ G' = remove_nodes(G, {origin})
    /\ NoRaise
    /\ UNCHANGED <<static, backends, finalstatus, has_copy, copy_of_self1, bn,
                   nodes_in_area, lst0, lst, tables, op, origin, multi_areas,
                   fv_todo, msg, runs>>

\* self.rm_nodes(node) of delete_a_node: the first call, with a new visited set
propagate ==
    /\ pc = "propagate"
    /\ RmCall(origin, <<>>, {}, broken)
    /\ pc' = IF stack' = <<>> THEN "remove" ELSE "rm_nodes"
    /\ NoRaise
    /\ UNCHANGED <<G, static, backends, finalstatus, has_copy, copy_of_self1, bn,
                   nodes_in_area, lst0, lst, tables, op, origin, multi_areas,
                   fv_todo, msg, runs>>

\* one iteration of the for loop of simulate_multi_area_perturbation
area_next ==
    /\ pc = "area_loop"
    /\ \E node \in fv_todo :
         /\ fv_todo' = fv_todo \ {node}
         /\ IF node \in G.nodes
            THEN /\ origin' = node
                 /\ RmCall(node, <<>>, {}, {})
                 /\ pc' = IF stack' = <<>> THEN "remove" ELSE "rm_nodes"
            ELSE /\ broken' = {}
                 /\ pc' = IF fv_todo' = {} THEN "check_after" ELSE "area_loop"
                 /\ UNCHANGED <<origin, newstatus, stack, visited>>
    /\ NoRaise
    /\ UNCHANGED <<G, static, backends, finalstatus, has_copy, copy_of_self1, bn,
                   nodes_in_area, lst0, lst, tables, op, multi_areas, msg, runs>>

Top == stack[Len(stack)]

Pop == SubSeq(stack, 1, Len(stack) - 1)

\* one iteration of the for loop of the innermost call: a recursive call
rm_nodes ==
    /\ pc = "rm_nodes"
    /\ stack # <<>>
    /\ \E next \in Top.todo :
         RmCall(next, Append(Pop, [Top EXCEPT !.todo = @ \ {next}]), visited, broken)
    /\ NoRaise
    /\ UNCHANGED <<G, static, backends, finalstatus, has_copy, copy_of_self1, bn,
                   nodes_in_area, lst0, lst, tables, pc, op, origin, multi_areas,
                   fv_todo, msg, runs>>

\* the for loop of the innermost call is over: return visited
rm_return ==
    /\ pc = "rm_nodes"
    /\ stack # <<>>
    /\ Top.todo = {}
    /\ stack' = Pop
    /\ pc' = IF Pop = <<>> THEN "remove" ELSE "rm_nodes"
    /\ NoRaise
    /\ UNCHANGED <<G, static, backends, broken, newstatus, visited, finalstatus, has_copy,
                   copy_of_self1, bn, nodes_in_area, lst0, lst, tables, op, origin,
                   multi_areas, fv_todo, msg, runs>>

\* remove_broken that removes the broken nodes from the snapshot as well
remove_broken_FromSnapshot ==
    /\ pc = "remove"
    /\ LET b == ({x[1] : x \in broken} \cup {x[2] : x \in broken}) \ {NULL}
       IN  /\ bn' = b
           /\ copy_of_self1' = remove_nodes(copy_of_self1, b)
           /\ IF b \subseteq G.nodes
              THEN /\ G' = remove_nodes(G, b)
                   /\ pc' = IF op = "delete" \/ fv_todo = {}
                            THEN "check_after" ELSE "area_loop"
                   /\ NoRaise
              ELSE /\ \E R \in SUBSET (b \cap G.nodes) : G' = remove_nodes(G, R)
                   /\ Raise("NetworkXError", "remove")
    /\ UNCHANGED <<static, backends, cascade_vars, finalstatus, has_copy,
                   nodes_in_area, lst0, lst, tables, op, origin, multi_areas,
                   fv_todo, msg, runs>>

\* self.bn = list(set(chain(*self.broken))) without "NULL"; remove_node for
\* each.  remove_node of a node that is not in the graph raises NetworkXError,
\* after any of the other nodes of bn have been removed.
remove_broken ==
    /\ pc = "remove"
    /\ LET b == ({x[1] : x \in broken} \cup {x[2] : x \in broken}) \ {NULL}
       IN  /\ bn' = b
           /\ IF b \subseteq G.nodes
              THEN /\ G' = remove_nodes(G, b)
                   /\ pc' = IF op = "delete" \/ fv_todo = {}
                            THEN "check_after" ELSE "area_loop"
                   /\ NoRaise
              ELSE /\ \E R \in SUBSET (b \cap G.nodes) : G' = remove_nodes(G, R)
                   /\ Raise("NetworkXError", "remove")
    /\ UNCHANGED <<static, backends, cascade_vars, finalstatus, has_copy, copy_of_self1,
                   nodes_in_area, lst0, lst, tables, op, origin, multi_areas,
                   fv_todo, msg, runs>>

check_after ==
    /\ pc = "check_after"
    /\ LET r == indicators(G, copy_of_self1)
           k == first_error(r.g, 1)
       IN  /\ G' = r.g
           /\ copy_of_self1' = r.c
           /\ IF r.err # "none"
              THEN /\ lst' = <<>>
                   /\ UNCHANGED finalstatus
                   /\ Raise(r.err, "check_after")
              ELSE IF k # 0
              THEN /\ lst' = rows_upto(r.g, k - 1, row_after)
                   /\ finalstatus' = reopen_pairs(r.g, 1, k, finalstatus)
                   /\ Raise(row_error(r.g, service_pairs[k][1], service_pairs[k][2]),
                            "check_after")
              ELSE /\ lst' = rows_upto(r.g, Len(service_pairs), row_after)
                   /\ finalstatus' =
                         reopen_pairs(r.g, 1, Len(service_pairs), finalstatus)
                   /\ pc' = "write"
                   /\ NoRaise
    /\ UNCHANGED <<static, backends, cascade_vars, has_copy, bn, nodes_in_area, lst0, tables,
                   op, origin, multi_areas, fv_todo, msg, runs>>

\* Status_Area that reports as damaged only the nodes the perturbation removed
Status_Area_RemovedOnly(n, areas) ==
    IF op = "area" /\ area[n] \in areas /\ n \notin G.nodes
    THEN "DAMAGED" ELSE "AVAILABLE"

\* the Status_Area of a snapshot node: AVAILABLE in delete_a_node; in
\* update_areas DAMAGED when the Area of the node is in multi_areas
Status_Area(n, areas) ==
    IF op = "area" /\ area[n] \in areas THEN "DAMAGED" ELSE "AVAILABLE"

\* the end of both workflows: the service-paths table, the status fields of the
\* snapshot and the node-characterization table
\*   delete_a_node: update_status twice with self.bn, Mark_Status by self.bn,
\*                  Status_Area AVAILABLE
\*   simulate_multi_area_perturbation: update_areas(multi_areas)
write_tables ==
    /\ pc = "write"
    /\ LET paths_file == IF op = "delete"
                         THEN "service_paths_element_perturbation.csv"
                         ELSE "service_paths_multi_area_perturbation.csv"
           nodes_file == IF op = "delete" THEN "element_perturbation.csv"
                         ELSE "area_perturbation.csv"
           done == IF op = "delete" THEN bn ELSE nodes_in_area
           t1 == Update(tables, paths_file, merge_lists(lst0, lst))
           u1 == update_status(copy_of_self1, newstatus, "IntermediateStatus", done)
           u2 == update_status(u1.c, finalstatus, "FinalStatus", done)
           deleted_nodes == IF op = "delete" THEN bn
                            ELSE copy_of_self1.nodes \ G.nodes
           areas == {multi_areas[i] : i \in 1..Len(multi_areas)}
           c3 == [u2.c EXCEPT
                    !.Mark_Status = [n \in u2.c.nodes |->
                        IF n \in deleted_nodes THEN "NOT_ACTIVE" ELSE "ACTIVE"],
                    !.Status_Area = [n \in u2.c.nodes |-> Status_Area(n, areas)]]
       IN  IF u1.err # "none"
           THEN /\ tables' = t1
                /\ UNCHANGED copy_of_self1
                /\ Raise(u1.err, "write")
           ELSE IF u2.err # "none"
           THEN /\ tables' = t1
                /\ copy_of_self1' = u1.c
                /\ Raise(u2.err, "write")
           ELSE IF characterization_error(c3) # "none"
           THEN /\ tables' = t1
                /\ copy_of_self1' = c3
                /\ Raise(characterization_error(c3), "write")
           ELSE /\ tables' = Update(t1, nodes_file, characterization(c3))
                /\ copy_of_self1' = c3
                /\ pc' = "done"
                /\ NoRaise
    /\ UNCHANGED <<G, static, backends, cascade_vars, finalstatus, has_copy, bn,
                   nodes_in_area, lst0, lst, op, origin, multi_areas, fv_todo,
                   msg, runs>>

Next ==
    \/ \E node \in AllMarks : delete_a_node(node)
    \/ \E areas \in AreaLists : simulate_multi_area_perturbation(areas)
    \/ check_before
    \/ centralities
    \/ snapshot
    \/ propagate
    \/ area_next
    \/ rm_nodes
    \/ rm_return
    \/ remove_broken
    \/ check_after
    \/ write_tables

\* floyd_warshall_predecessor_and_distance_serial() called on the loaded graph
run_floyd_warshall ==
    /\ pc = "idle"
    /\ limit = 0
    /\ LET r == floyd_warshall_predecessor_and_distance_serial(G)
       IN  /\ G' = r.g
           /\ IF r.err = "none"
              THEN pc' = "floyd_warshall" /\ NoRaise
              ELSE Raise(r.err, "floyd_warshall")
    /\ UNCHANGED <<static, backends, cascade_vars, finalstatus, has_copy, copy_of_self1, bn,
                   nodes_in_area, lst0, lst, tables, op, origin, multi_areas,
                   fv_todo, msg, runs>>

\* single_source_shortest_path_serial() called on the loaded graph
run_dijkstra ==
    /\ pc = "idle"
    /\ limit = 0
    /\ LET r == single_source_shortest_path_serial(G)
       IN  /\ G' = r.g
           /\ pc' = "dijkstra"
           /\ NoRaise
    /\ UNCHANGED <<static, backends, cascade_vars, finalstatus, has_copy, copy_of_self1, bn,
                   nodes_in_area, lst0, lst, tables, op, origin, multi_areas,
                   fv_todo, msg, runs>>

(***************************************************************************)
(* The parallel Floyd-Warshall.  Every process runs floyd_warshall_kernel  *)
(* on its band of rows of the shared matrices arr and arr1; one step of a  *)
(* process is one iteration w of its for loop.  The kernel calls           *)
(* barrier.wait() once, after its for loop.                                *)
(***************************************************************************)
\* A Python float of chunk_it, held exactly: a natural number of units of
\* 2^-FracBits in three limbs of LimbBits bits (hi, mid, lo), with at most
\* Precision significant bits.  Every quotient and sum is rounded to the
\* nearest such number, ties to the even one, as by the hardware.  The limbs
\* hold every value below 2^12 whose last significant bit is a unit or more:
\* lists of fewer than 2^11 nodes, cut in at most 64 chunks.
Precision == 53

LimbBits == 24

FracBits == 60

Limb == 2 ^ LimbBits

\* the units of the integer 1 in the limb hi
OneHi == 2 ^ (FracBits - 2 * LimbBits)

RECURSIVE BitLen(_)
BitLen(v) == IF v = 0 THEN 0 ELSE 1 + BitLen(v \div 2)

FloatZero == [hi |-> 0, mid |-> 0, lo |-> 0]

\* x + y, exactly
AddLimbs(x, y) ==
    LET lo == x.lo + y.lo
        mid == x.mid + y.mid + lo \div Limb
    IN  [hi |-> x.hi + y.hi + mid \div Limb, mid |-> mid % Limb, lo |-> lo % Limb]

\* the exact number x (sticky: something non-zero lies below its last unit)
\* rounded to Precision significant bits; the bits dropped are in the limb lo
RoundFloat(x, sticky) ==
    LET h == IF x.hi > 0 THEN 2 * LimbBits + BitLen(x.hi)
             ELSE IF x.mid > 0 THEN LimbBits + BitLen(x.mid)
             ELSE BitLen(x.lo)
    IN  IF h <= Precision THEN x
        ELSE LET u == 2 ^ (h - Precision)
                 low == x.lo % u
                 odd == (x.lo \div u) % 2 = 1
                 up == \/ 2 * low > u
                       \/ 2 * low = u /\ (sticky \/ odd)
                 kept == [x EXCEPT !.lo = x.lo - low]
             IN  IF up THEN AddLimbs(kept, [hi |-> 0, mid |-> 0, lo |-> u])
                 ELSE kept

\* float(a) / b for two naturals, b > 0: long division limb by limb
FloatDiv(a, b) ==
    LET n2 == a * OneHi
        n1 == (n2 % b) * Limb
        n0 == (n1 % b) * Limb
    IN  RoundFloat([hi |-> n2 \div b, mid |-> n1 \div b, lo |-> n0 \div b],
                   n0 % b # 0)

FloatAdd(x, y) == RoundFloat(AddLimbs(x, y), FALSE)

\* int(x)
FloatInt(x) == x.hi \div OneHi

RECURSIVE chunk_cuts(_, _, _, _)
\* the while loop of chunk_it on a list of len nodes: the pairs
\* (int(last), int(last + avg)) while last < len (int(last) < len, len being
\* an integer)
chunk_cuts(len, avg, last, out) ==
    IF FloatInt(last) >= len THEN out
    ELSE chunk_cuts(len, avg, FloatAdd(last, avg),
                    Append(out, <<FloatInt(last), FloatInt(FloatAdd(last, avg))>>))

\* nodi[a:b], a slice of Python
Slice(nodi, a, b) == SubSeq(nodi, a + 1, IF b < Len(nodi) THEN b ELSE Len(nodi))

\* chunk_it(nodi, n): the lists nodi[int(last) : int(last + avg)] for last = 0.0,
\* avg, avg + avg, ... while last < len(nodi), in floating point
chunk_it(nodi, n) ==
    LET cuts == chunk_cuts(Len(nodi), FloatDiv(Len(nodi), n), FloatZero, <<>>)
    IN  [k \in 1..Len(cuts) |-> Slice(nodi, cuts[k][1], cuts[k][2])]

RECURSIVE chunk(_, _, _, _)
\* chunk[i]: the rows (init, stop) of process i
chunk(n, num, node_chunks, i) ==
    IF i = 0 THEN <<0, n \div num>>
    ELSE LET prev == chunk(n, num, node_chunks, i - 1)
         IN  <<prev[2], prev[2] + Len(node_chunks[i + 1])>>

\* lines 346-382: the shared matrices are filled and the processes started
floyd_warshall_predecessor_and_distance_parallel ==
    /\ pc = "idle"
    /\ limit = 0
    /\ \E num \in 1..MaxProcs :
         LET n == Cardinality(G.nodes)
             m == floyd_warshall_initialization(G)
             node_chunks == chunk_it(NodeList(G), num)
         IN  /\ arr' = m.dist
             /\ arr1' = m.pred
             /\ kernel' = [p \in 0..(num - 1) |->
                             [init |-> chunk(n, num, node_chunks, p)[1],
                              stop |-> chunk(n, num, node_chunks, p)[2],
                              w |-> 0, at |-> "for"]]
    /\ barrier' = 0
    /\ pc' = "kernel"
    /\ UNCHANGED <<G, static, cascade_vars, finalstatus, has_copy, copy_of_self1,
                   bn, nodes_in_area, lst0, lst, tables, op, origin, multi_areas,
                   fv_todo, msg, err, failedAt, runs, collect_vars, n_of_nodes, n_of_edges, partition, called>>

\* process p runs the body of its for loop for w = kernel[p].w
kernel_iteration(p) ==
    /\ pc = "kernel"
    /\ p \in DOMAIN kernel
    /\ kernel[p].at = "for"
    /\ kernel[p].w < Cardinality(G.nodes)
    /\ LET m == floyd_warshall_iteration([dist |-> arr, pred |-> arr1],
                                         Cardinality(G.nodes), kernel[p].w,
                                         kernel[p].init, kernel[p].stop)
       IN  /\ arr' = m.dist
           /\ arr1' = m.pred
    /\ kernel' = [kernel EXCEPT ![p].w = @ + 1]
    /\ UNCHANGED <<G, static, cascade_vars, finalstatus, has_copy, copy_of_self1,
                   bn, nodes_in_area, lst0, lst, tables, pc, op, origin,
                   multi_areas, fv_todo, msg, err, failedAt, runs,
                   collect_vars, n_of_nodes, n_of_edges, partition, called, barrier>>

\* process p leaves its for loop and calls barrier.wait()
barrier_wait(p) ==
    /\ pc = "kernel"
    /\ p \in DOMAIN kernel
    /\ kernel[p].at = "for"
    /\ kernel[p].w = Cardinality(G.nodes)
    /\ kernel' = [kernel EXCEPT ![p].at = "wait"]
    /\ barrier' = barrier + 1
    /\ UNCHANGED <<G, static, cascade_vars, finalstatus, has_copy, copy_of_self1,
                   bn, nodes_in_area, lst0, lst, tables, pc, op, origin,
                   multi_areas, fv_todo, msg, err, failedAt, runs,
                   collect_vars, n_of_nodes, n_of_edges, partition, called, arr, arr1>>

\* a barrier made for one party more than the processes started
barrier_release_OneMoreParty ==
    /\ pc = "kernel"
    /\ barrier = Cardinality(DOMAIN kernel) + 1
    /\ kernel' = [p \in DOMAIN kernel |-> [kernel[p] EXCEPT !.at = "exit"]]
    /\ barrier' = 0
    /\ UNCHANGED <<G, static, cascade_vars, finalstatus, has_copy, copy_of_self1,
                   bn, nodes_in_area, lst0, lst, tables, pc, op, origin,
                   multi_areas, fv_todo, msg, err, failedAt, runs,
                   collect_vars, n_of_nodes, n_of_edges, partition, called, arr, arr1>>

\* mp.Barrier(self.num): the self.num processes wait, and all return
barrier_release ==
    /\ pc = "kernel"
    /\ barrier = Cardinality(DOMAIN kernel)
    /\ kernel' = [p \in DOMAIN kernel |-> [kernel[p] EXCEPT !.at = "exit"]]
    /\ barrier' = 0
    /\ UNCHANGED <<G, static, cascade_vars, finalstatus, has_copy, copy_of_self1,
                   bn, nodes_in_area, lst0, lst, tables, pc, op, origin,
                   multi_areas, fv_todo, msg, err, failedAt, runs,
                   collect_vars, n_of_nodes, n_of_edges, partition, called, arr, arr1>>

\* the nodes whose paths reach the parent: a process that raises in
\* ConstructPath ends without updating shpath_temp with its chunk
paths_collected(g, rec, node_chunks) ==
    LET R == 0..(Cardinality(g.nodes) - 1)
        raises(k) == \E j \in R : rec[ids_reversed(g, k)][j].kind # "ok"
        nodes_of(ch) == {node_chunks[ch][i] : i \in 1..Len(node_chunks[ch])}
        dead == {ch \in DOMAIN node_chunks : \E k \in nodes_of(ch) : raises(k)}
    IN  UNION {nodes_of(ch) : ch \in (DOMAIN node_chunks) \ dead}

\* lines 384-423: the processes are joined, the paths are rebuilt process by
\* process and the attributes written node by node; a node whose paths were
\* not collected has no "shortest_path" and the loop raises KeyError there
join ==
    /\ pc = "kernel"
    /\ \A p \in DOMAIN kernel : kernel[p].at = "exit"
    /\ LET R == 0..(Cardinality(G.nodes) - 1)
           m == [dist |-> arr, pred |-> arr1]
           rec == fw_paths(G, arr1)
           got == paths_collected(G, rec,
                      chunk_it(NodeList(G), Cardinality(DOMAIN kernel)))
           sp == Explicit([k \in got |->
                    Explicit([t \in {t \in G.nodes :
                                rec[ids_reversed(G, k)][ids_reversed(G, t)].path # <<>>} |->
                              rec[ids_reversed(G, k)][ids_reversed(G, t)].path])])
           missing == {i \in R : ids(G, i) \notin got}
           done == {ids(G, i) : i \in {i \in R : \A j \in missing : i < j}}
           sl == Explicit([k \in done |->
                    Explicit([t \in DOMAIN sp[k] |->
                        arr[ids_reversed(G, sp[k][t][1]),
                            ids_reversed(G, sp[k][t][Len(sp[k][t])])]])])
       IN  /\ \A i \in R, j \in R : rec[i][j].kind # "loop"
           /\ G' = [G EXCEPT !.shortest_path = sp, !.shpath_length = sl,
                             !.efficiency =
                                 Explicit([k \in done |-> efficiency_of(sl[k])])]
           /\ IF missing = {}
              THEN pc' = "floyd_warshall_parallel" /\ NoRaise
              ELSE Raise("KeyError", "floyd_warshall_parallel")
    /\ UNCHANGED <<static, cascade_vars, finalstatus, has_copy, copy_of_self1,
                   bn, nodes_in_area, lst0, lst, tables, op, origin, multi_areas,
                   fv_todo, msg, runs, collect_vars, n_of_nodes, n_of_edges, partition, called,
                   arr, arr1, kernel, barrier>>

NextParallel ==
    \/ floyd_warshall_predecessor_and_distance_parallel
    \/ \E p \in 0..(MaxProcs - 1) : kernel_iteration(p)
    \/ \E p \in 0..(MaxProcs - 1) : barrier_wait(p)
    \/ barrier_release
    \/ join

(***************************************************************************)
(* The parallel Dijkstra.  Process p puts one (source, result) tuple per   *)
(* node of its chunk on the queue: put() hands the tuple to the queue's    *)
(* thread of that process, which writes it to the pipe, and a process ends *)
(* once that thread has written everything.  The parent samples            *)
(* any(p.is_alive()), empties the pipe, and leaves its loop when the       *)
(* sample was False.  A tuple is held as its source node: its result is    *)
(* single_source_dijkstra of the graph, which no process changes.          *)
(***************************************************************************)
\* The lines family: the chain A -> B -> ... of 1 .. NumNodes nodes, each
\* edge with a weight of 0 .. MaxWeight.
InitLines ==
    \E k \in 1..NumNodes :
      LET N == FirstMarks(k)
          E == {<<Marks[i], Marks[i + 1]>> : i \in 1..(k - 1)}
      IN  \E w \in [E -> 0..MaxWeight] :
            load(N, E, [e \in E |-> "SINGLE"], w,
                 [n \in N |-> "pipe"], [n \in N |-> "1"],
                 [n \in N |-> RoleOf(N, E, n)],
                 [n \in N |-> "area1"], [n \in N |-> "0"], 0)

\* lines 553-569: the chunks are cut and the processes created and started;
\* node_chunks[p] raises IndexError when chunk_it returned too few chunks
parallel_wrapper_proc ==
    /\ pc = "idle"
    /\ limit = 0
    /\ \E num \in 1..MaxWorkers :
         LET node_chunks == chunk_it(NodeList(G), num)
         IN  IF Len(node_chunks) < num
             THEN /\ Raise("IndexError", "parallel_wrapper_proc")
                  /\ UNCHANGED procs
             ELSE /\ procs' = [p \in 0..(num - 1) |->
                                [nodi |-> node_chunks[p + 1], buffer |-> <<>>,
                                 alive |-> TRUE, raised |-> FALSE]]
                  /\ pc' = "while"
                  /\ NoRaise
    /\ attribute_ssspp' = <<>>
    /\ out_q' = <<>>
    /\ UNCHANGED <<G, static, cascade_vars, finalstatus, has_copy, copy_of_self1,
                   bn, nodes_in_area, lst0, lst, tables, op, origin, multi_areas,
                   fv_todo, msg, runs, running, n_of_nodes, n_of_edges, partition, called,
                   arr, arr1, kernel, barrier>>

\* what a step of a process or of the collector's loop leaves alone
wrapper_frame ==
    UNCHANGED <<G, static, cascade_vars, finalstatus, has_copy, copy_of_self1,
                bn, nodes_in_area, lst0, lst, tables, op, origin, multi_areas,
                fv_todo, msg, err, failedAt, runs, n_of_nodes, n_of_edges, partition, called,
                arr, arr1, kernel, barrier>>

\* single_source_shortest_path_parallel: process p computes the next node of
\* its chunk and puts the tuple
single_source_shortest_path_parallel(p) ==
    /\ pc \in {"while", "drain"}
    /\ p \in DOMAIN procs
    /\ procs[p].alive
    /\ procs[p].nodi # <<>>
    /\ procs' = [procs EXCEPT ![p].nodi = Tail(@),
                              ![p].buffer = Append(@, Head(procs[p].nodi))]
    /\ UNCHANGED <<pc, out_q, attribute_ssspp, running>>
    /\ wrapper_frame

\* the queue's thread of process p writes its oldest tuple to the pipe
queue_feed(p) ==
    /\ pc \in {"while", "drain"}
    /\ p \in DOMAIN procs
    /\ procs[p].buffer # <<>>
    /\ out_q' = Append(out_q, Head(procs[p].buffer))
    /\ procs' = [procs EXCEPT ![p].buffer = Tail(@)]
    /\ UNCHANGED <<pc, attribute_ssspp, running>>
    /\ wrapper_frame

\* process p returns from its target, or has raised: it ends once its queue's
\* thread has written everything
process_exit(p) ==
    /\ pc \in {"while", "drain"}
    /\ p \in DOMAIN procs
    /\ procs[p].alive
    /\ procs[p].nodi = <<>>
    /\ procs[p].buffer = <<>>
    /\ procs' = [procs EXCEPT ![p].alive = FALSE]
    /\ UNCHANGED <<pc, out_q, attribute_ssspp, running>>
    /\ wrapper_frame

\* line 572: running = any(p.is_alive() for p in processes)
is_alive ==
    /\ pc = "while"
    /\ running' = \E p \in DOMAIN procs : procs[p].alive
    /\ pc' = "drain"
    /\ UNCHANGED <<procs, out_q, attribute_ssspp>>
    /\ wrapper_frame

\* lines 573-575: out_q is not empty, the collector takes a tuple
out_q_get ==
    /\ pc = "drain"
    /\ out_q # <<>>
    /\ attribute_ssspp' = Append(attribute_ssspp, Head(out_q))
    /\ out_q' = Tail(out_q)
    /\ UNCHANGED <<pc, procs, running>>
    /\ wrapper_frame

\* lines 573, 577-578: out_q.empty(), the collector leaves its loop when the
\* sample was False
out_q_empty ==
    /\ pc = "drain"
    /\ out_q = <<>>
    /\ pc' = IF running THEN "while" ELSE "collected"
    /\ UNCHANGED <<procs, out_q, attribute_ssspp, running>>
    /\ wrapper_frame

\* the attributes of the sources of the tuples
ssspp_attributes(g, sources) ==
    LET r == Explicit([n \in sources |-> single_source_dijkstra(g, n)])
        old(f) == Restrict(f, (DOMAIN f) \ sources)
    IN  [g EXCEPT !.shortest_path =
                      MergeMap(old(g.shortest_path), Explicit([n \in sources |-> r[n].paths])),
                  !.shpath_length =
                      MergeMap(old(g.shpath_length), Explicit([n \in sources |-> r[n].dist])),
                  !.efficiency =
                      MergeMap(old(g.efficiency),
                               Explicit([n \in sources |-> efficiency_of(r[n].dist)]))]

\* lines 580-597: the attributes of every tuple taken are written
wrapper_write ==
    /\ pc = "collected"
    /\ G' = ssspp_attributes(G, {attribute_ssspp[i] : i \in 1..Len(attribute_ssspp)})
    /\ pc' = "dijkstra_parallel"
    /\ UNCHANGED <<static, cascade_vars, finalstatus, has_copy, copy_of_self1,
                   bn, nodes_in_area, lst0, lst, tables, op, origin, multi_areas,
                   fv_todo, msg, err, failedAt, runs, collect_vars, n_of_nodes,
                   n_of_edges, partition, called, arr, arr1, kernel, barrier>>

NextWrapper ==
    \/ parallel_wrapper_proc
    \/ \E p \in 0..(MaxWorkers - 1) : single_source_shortest_path_parallel(p)
    \/ \E p \in 0..(MaxWorkers - 1) : queue_feed(p)
    \/ \E p \in 0..(MaxWorkers - 1) : process_exit(p)
    \/ is_alive
    \/ out_q_get
    \/ out_q_empty
    \/ wrapper_write

\* an exception in single_source_shortest_path_parallel: process p leaves the
\* rest of its chunk; what it has put is still written before it ends
process_raises(p) ==
    /\ pc \in {"while", "drain"}
    /\ p \in DOMAIN procs
    /\ procs[p].alive
    /\ procs[p].nodi # <<>>
    /\ procs' = [procs EXCEPT ![p].nodi = <<>>, ![p].raised = TRUE]
    /\ UNCHANGED <<pc, out_q, attribute_ssspp, running>>
    /\ wrapper_frame

\* an exception in floyd_warshall_kernel: process p ends inside its for loop
\* and never calls barrier.wait()
kernel_raises(p) ==
    /\ pc = "kernel"
    /\ p \in DOMAIN kernel
    /\ kernel[p].at = "for"
    /\ kernel[p].w < Cardinality(G.nodes)
    /\ kernel' = [kernel EXCEPT ![p].at = "dead"]
    /\ UNCHANGED <<G, static, cascade_vars, finalstatus, has_copy, copy_of_self1,
                   bn, nodes_in_area, lst0, lst, tables, pc, op, origin,
                   multi_areas, fv_todo, msg, err, failedAt, runs, collect_vars,
                   n_of_nodes, n_of_edges, partition, called, arr, arr1, barrier>>

\* the parallel back-ends with processes that may raise
NextFailure ==
    \/ NextWrapper
    \/ NextParallel
    \/ \E p \in 0..(MaxWorkers - 1) : process_raises(p)
    \/ \E p \in 0..(MaxProcs - 1) : kernel_raises(p)

\* The rings family: the directed cycle A -> B -> ... -> A of 3 .. MaxRing
\* nodes, each edge with a weight of 1 .. MaxWeight.
InitRings ==
    \E k \in 3..MaxRing :
      LET N == FirstMarks(k)
          E == {<<Marks[i], Marks[(i % k) + 1]>> : i \in 1..k}
      IN  \E w \in [E -> 1..MaxWeight] :
            load(N, E, [e \in E |-> "SINGLE"], w,
                 [n \in N |-> "pipe"], [n \in N |-> "1"],
                 [n \in N |-> "HUB"],
                 [n \in N |-> "area1"], [n \in N |-> "0"], 0)

\* calculate_shortest_path() and betweenness_centrality() called on the
\* loaded graph
run_betweenness ==
    /\ pc = "idle"
    /\ limit = 0
    /\ LET a == calculate_shortest_path(G)
           b == betweenness_centrality(a.g)
       IN  IF a.err # "none" THEN G' = a.g /\ Raise(a.err, "calculate_shortest_path")
           ELSE IF b.err # "none" THEN G' = a.g /\ Raise(b.err, "betweenness_centrality")
           ELSE G' = b.g /\ pc' = "betweenness" /\ NoRaise
    /\ UNCHANGED <<static, backends, cascade_vars, finalstatus, has_copy, copy_of_self1,
                   bn, nodes_in_area, lst0, lst, tables, op, origin, multi_areas,
                   fv_todo, msg, runs>>

\* the smallest order at which a graph with one edge has a low density
FirstSparseOrder ==
    CHOOSE n \in 2..ParallelThreshold :
        /\ density_is_low(n, 1)
        /\ ~density_is_low(n - 1, 1)

Around(k) == {i \in (k - Spread)..(k + Spread) : i >= 0}

\* the orders and sizes of the selection family: the small ones, and those
\* around each threshold of calculate_shortest_path
Orders == Around(0) \cup Around(FirstSparseOrder) \cup Around(ParallelThreshold)

Sizes(n) ==
    {m \in Around(0) \cup Around((n * (n - 1)) \div DensityScale) : m <= n * (n - 1)}

\* The selection family: calculate_shortest_path reads the order and the
\* density of the graph only, so a graph is given by its two counts.
InitSelect ==
    /\ load_object({}, {}, EmptyMap, EmptyMap, EmptyMap, EmptyMap, EmptyMap,
                   EmptyMap, EmptyMap, 0)
    /\ n_of_nodes \in Orders
    /\ n_of_edges \in Sizes(n_of_nodes)
    /\ partition = <<>>
    /\ called = <<>>
    /\ arr = <<>>
    /\ arr1 = <<>>
    /\ kernel = <<>>
    /\ barrier = 0
    /\ procs = <<>>
    /\ out_q = <<>>
    /\ attribute_ssspp = <<>>
    /\ running = FALSE

\* the ways to put the nodes of S in a row
Orderings(S) ==
    {o \in [1..Cardinality(S) -> S] : \A i, j \in 1..Cardinality(S) : o[i] = o[j] => i = j}

\* The paths family: the MaxChain first Marks joined into one directed path,
\* in every order, all edges with the same weight of 1 .. MaxWeight.
InitPaths ==
    \E o \in Orderings(FirstMarks(MaxChain)) :
      LET N == FirstMarks(MaxChain)
          E == {<<o[i], o[i + 1]>> : i \in 1..(MaxChain - 1)}
      IN  \E w \in 1..MaxWeight :
            load(N, E, [e \in E |-> "SINGLE"], [e \in E |-> w],
                 [n \in N |-> "pipe"], [n \in N |-> "1"],
                 [n \in N |-> RoleOf(N, E, n)],
                 [n \in N |-> "area1"], [n \in N |-> "0"], 0)

\* the partition family: an object of 1 .. MaxList nodes, of which the row
\* partition reads the count only
InitChunks ==
    /\ load_object({}, {}, EmptyMap, EmptyMap, EmptyMap, EmptyMap, EmptyMap,
                   EmptyMap, EmptyMap, 0)
    /\ n_of_nodes \in 1..MaxList
    /\ n_of_edges = 0
    /\ partition = <<>>
    /\ called = <<>>
    /\ arr = <<>>
    /\ arr1 = <<>>
    /\ kernel = <<>>
    /\ barrier = 0
    /\ procs = <<>>
    /\ out_q = <<>>
    /\ attribute_ssspp = <<>>
    /\ running = FALSE

Init ==
    \/ InitGeneral \/ InitChain \/ InitPlant \/ InitNames \/ InitDiamond
    \/ InitWeighted \/ InitSelect \/ InitLines \/ InitRings \/ InitChunks \/ InitPaths
    \/ InitZones

\* lines 362-368: the node list is cut by chunk_it and the rows (init, stop)
\* of each of the self.num processes are derived from the chunks; the row
\* labels 0 .. n-1 stand for the nodes
chunk_rows ==
    /\ pc = "idle"
    /\ partition = <<>>
    /\ n_of_nodes >= 1
    /\ \E num \in 1..MaxWorkers :
         LET nodi == [i \in 1..n_of_nodes |-> i - 1]
             node_chunks == chunk_it(nodi, num)
         IN  partition' = [num |-> num,
                           node_chunks |-> node_chunks,
                           chunk |-> [p \in 0..(num - 1) |->
                                        chunk(n_of_nodes, num, node_chunks, p)]]
    /\ UNCHANGED <<G, static, cascade_vars, finalstatus, has_copy, copy_of_self1,
                   bn, nodes_in_area, lst0, lst, tables, pc, op, origin,
                   multi_areas, fv_todo, msg, err, failedAt, runs,
                   collect_vars, n_of_nodes, n_of_edges, called, arr, arr1, kernel,
                   barrier>>

SpecChunks == InitChunks /\ [][chunk_rows]_vars

\* calculate_shortest_path() on a graph of n_of_nodes nodes and n_of_edges edges
select_backend ==
    /\ pc = "idle"
    /\ called = <<>>
    /\ called' = called \o backends_called(n_of_nodes, n_of_edges)
    /\ UNCHANGED <<G, static, cascade_vars, finalstatus, has_copy, copy_of_self1,
                   bn, nodes_in_area, lst0, lst, tables, pc, op, origin,
                   multi_areas, fv_todo, msg, err, failedAt, runs,
                   collect_vars, n_of_nodes, n_of_edges, partition, arr, arr1, kernel, barrier>>

\* the two serial back-ends, each called on its own on a loaded graph
NextBackends == run_floyd_warshall \/ run_dijkstra

Spec ==
    Init /\ [][Next \/ NextBackends \/ select_backend \/ NextFailure \/ run_betweenness
               \/ chunk_rows]_vars

SpecGeneral == InitGeneral /\ [][Next]_vars

\* the interpreter goes on with a call of rm_nodes that has begun: the next
\* iteration of its for loop is run, or the call returns
SpecCascade == InitGeneral /\ [][Next]_vars /\ WF_vars(rm_nodes \/ rm_return)

SpecChain == InitChain /\ [][Next]_vars

SpecPlant == InitPlant /\ [][Next]_vars

SpecNames == InitNames /\ [][Next]_vars

SpecDiamond == InitDiamond /\ [][Next]_vars

SpecZones == InitZones /\ [][Next]_vars

SpecBackends == InitWeighted /\ [][NextBackends]_vars

SpecSelect == InitSelect /\ [][select_backend]_vars

SpecParallel == InitWeighted /\ [][NextParallel]_vars

SpecWrapper == InitLines /\ [][NextWrapper]_vars

SpecFailure == InitLines /\ [][NextFailure]_vars

\* the parallel Floyd-Warshall on the paths family
SpecPaths == InitPaths /\ [][NextParallel]_vars

\* what a step of process p of the parallel Floyd-Warshall does to its own
\* position: one more iteration of the for loop, or from the loop to the
\* barrier (the step of kernel_iteration(p) or barrier_wait(p))
kernel_advances(p) ==
    /\ pc = "kernel"
    /\ p \in DOMAIN kernel
    /\ kernel[p].at = "for"
    /\ kernel' = [kernel EXCEPT ![p] =
                     IF @.w < Cardinality(G.nodes)
                     THEN [@ EXCEPT !.w = @ + 1]
                     ELSE [@ EXCEPT !.at = "wait"]]

\* what join does to the position of the parent: proc.join() returns for
\* every process and the attribute loops end (the step of join)
join_returns ==
    /\ pc = "kernel"
    /\ \A p \in DOMAIN kernel : kernel[p].at = "exit"
    /\ LET R == 0..(Cardinality(G.nodes) - 1)
           rec == fw_paths(G, arr1)
       IN  \A i \in R, j \in R : rec[i][j].kind # "loop"
    /\ pc' \in {"floyd_warshall_parallel", "fault"}

\* The operating system schedules the started processes, their queue threads
\* and the parent: while a step of some process stays possible a process
\* takes a step, and so does the parent; the barrier lets its parties go once
\* the last one has arrived, and join returns once the processes have ended.
Scheduling ==
    /\ WF_vars(\E p \in 0..(MaxWorkers - 1) :
                  \/ single_source_shortest_path_parallel(p)
                  \/ queue_feed(p)
                  \/ process_exit(p))
    /\ WF_vars(is_alive \/ out_q_get \/ out_q_empty)
    /\ WF_kernel(\/ \E p \in 0..(MaxProcs - 1) : kernel_advances(p)
                 \/ barrier_release)
    /\ WF_pc(join_returns)

\* the two parallel back-ends, no process failing, under fair scheduling
SpecCompletion == InitLines /\ [][NextWrapper \/ NextParallel]_vars /\ Scheduling

SpecCentrality == (InitRings \/ InitWeighted) /\ [][run_betweenness]_vars

(***************************************************************************)
(* Properties.                                                             *)
(***************************************************************************)
isValve(n) == D[n] \in DOMAIN valv

\* delete_a_node has removed the nodes of self.bn from the live graph
AfterRemoval ==
    /\ op = "delete"
    /\ \/ pc \in {"check_after", "write", "done"}
       \/ pc = "fault" /\ failedAt \in {"check_after", "write"}

\* the predecessors the node had when the snapshot was taken
before(n) == predecessors(copy_of_self1, n)

\* the conditions on the edges that entered the node when the snapshot was taken
conds(n) == {condition[<<p, n>>] : p \in before(n)}

\* the nodes the running call of rm_nodes appends to self.broken in this step
Marked(b, c) == {x[1] : x \in c \ b}

\* C1: once delete_a_node(m) has removed the broken nodes, m is not a node of
\* the live graph, be m an isolating element or not, of any status, with any
\* conditions on its incoming edges.
C1_OriginRemoved == AfterRemoval => origin \notin G.nodes

\* C1, its case: delete_a_node of an isolating element fed through OR edges by
\* a node that stays has run to its end.
C1_Witness ==
    /\ op = "delete"
    /\ pc = "done"
    /\ isValve(origin)
    /\ origin \notin G.nodes
    /\ \E p \in before(origin) : condition[<<p, origin>>] = "OR" /\ p \in G.nodes

\* C2: once delete_a_node(m) has removed the broken nodes, no node that is not
\* an isolating element and had a predecessor is left in the live graph with
\* every one of its predecessors removed.
C2_NoSurvivorWithoutPredecessor ==
    AfterRemoval =>
      \A n \in G.nodes :
        ~ isValve(n) /\ before(n) # {} => before(n) \cap G.nodes # {}

\* C3: once delete_a_node(m) has removed the broken nodes, a node that is not
\* an isolating element, whose incoming edges are all SINGLE, AND or ORPHAN
\* and one of whose predecessors has been removed, has been removed too.
C3_AndSingleCollapse ==
    AfterRemoval =>
      \A n \in copy_of_self1.nodes :
        /\ ~ isValve(n)
        /\ conds(n) \subseteq {"SINGLE", "AND", "ORPHAN"}
        /\ before(n) \ G.nodes # {}
        => n \notin G.nodes

\* C3, its case: A -> C (AND), B -> C (AND), delete A has removed A and C.
C3_Witness ==
    /\ AfterRemoval
    /\ origin = "A"
    /\ copy_of_self1.edges = {<<"A", "C">>, <<"B", "C">>}
    /\ conds("C") = {"AND"}
    /\ bn = {"A", "C"}
    /\ G.nodes = {"B"}

\* C4: in a cascade started at m, rm_nodes marks a node other than m that is
\* not an isolating element and whose incoming edges are all OR only when
\* every predecessor of the node is already in self.broken; the calls of
\* rm_nodes inside their for loop are calls on marked nodes, so the cascade
\* does not descend through a node it did not mark; and an OR node other than
\* m one of whose predecessors stays in the live graph stays too.
C4_OrSurvival ==
    /\ [][\A v \in Marked(broken, broken') :
             /\ v # origin'
             /\ ~ isValve(v)
             /\ CondSet(G, v) = {"OR"}
             => \A p \in predecessors(G, v) : InBroken(p, broken)]_vars
    /\ [](pc = "rm_nodes" =>
            \A i \in 1..Len(stack) : InBroken(stack[i].node, broken))
    /\ [](AfterRemoval =>
            \A v \in copy_of_self1.nodes \ {origin} :
              /\ ~ isValve(v)
              /\ conds(v) = {"OR"}
              /\ before(v) \cap G.nodes # {}
              => v \in G.nodes)

\* C4, its case: A -> C (OR), B -> C (OR), delete A has visited C, marked A
\* alone and left C in the live graph.
C4_Witness ==
    /\ AfterRemoval
    /\ origin = "A"
    /\ copy_of_self1.edges = {<<"A", "C">>, <<"B", "C">>}
    /\ conds("C") = {"OR"}
    /\ ~ isValve("B")
    /\ "C" \in visited
    /\ bn = {"A"}
    /\ G.nodes = {"B", "C"}

\* the nodes a cascade from m reaches without passing through an isolating
\* element other than m
Unshielded(g, m) ==
    ReachFrom(remove_nodes(g, {v \in g.nodes : isValve(v) /\ v # m}), {m})

\* C5: rm_nodes marks an isolating element only when it is the origin of the
\* cascade, and no call on another isolating element reaches its for loop;
\* after delete_a_node(m) every node whose paths from m all pass through an
\* isolating element other than m is in the live graph, and so is every
\* isolating element other than m.
C5_ValveIsolation ==
    /\ [][\A v \in Marked(broken, broken') :
             isValve(v) => v = origin']_vars
    /\ [](pc = "rm_nodes" =>
            \A i \in 1..Len(stack) :
              isValve(stack[i].node) => stack[i].node = origin)
    /\ [](AfterRemoval =>
            \A n \in copy_of_self1.nodes :
              n \notin Unshielded(copy_of_self1, origin) \/ (isValve(n) /\ n # origin)
              => n \in G.nodes)

\* C5, its case: A -> B -> C with B an isolating element, delete A has run to
\* its end: B was visited and C, reachable from A only through B, is live.
C5_Witness ==
    /\ op = "delete"
    /\ pc = "done"
    /\ origin = "A"
    /\ copy_of_self1.edges = {<<"A", "B">>, <<"B", "C">>}
    /\ isValve("B")
    /\ "B" \in visited
    /\ bn = {"A"}
    /\ G.nodes = {"B", "C"}

\* C6: every isolating element rm_nodes has visited has the entry "0" in
\* self.newstatus when its InitStatus is "1" and none when it is "0"; the
\* only entries of self.newstatus are such entries; and a step of the
\* cascade adds entries for visited nodes only.
C6_ValveTransition ==
    /\ [](\A v \in visited :
            isValve(v) =>
              IF status[v] = "1"
              THEN v \in DOMAIN newstatus /\ newstatus[v] = "0"
              ELSE v \notin DOMAIN newstatus)
    /\ [](\A v \in DOMAIN newstatus :
            isValve(v) /\ status[v] = "1" /\ newstatus[v] = "0")
    /\ [][(DOMAIN newstatus') \ (DOMAIN newstatus) \subseteq visited']_vars

\* C6, its case: a cascade has visited an isolating element other than its
\* origin whose InitStatus is "1" and recorded "0" for it.
C6_Witness ==
    /\ pc = "rm_nodes"
    /\ \E v \in visited \ {origin} :
         /\ isValve(v)
         /\ status[v] = "1"
         /\ v \in DOMAIN newstatus
         /\ newstatus[v] = "0"

\* the isolating elements on the simple paths between a SOURCE and a USER that
\* are both nodes of g
ServiceValves(g) ==
    {v \in g.nodes :
       /\ isValve(v)
       /\ \E i \in 1..Len(service_pairs) :
            /\ service_pairs[i][1] \in g.nodes
            /\ service_pairs[i][2] \in g.nodes
            /\ \E q \in all_simple_paths(g, service_pairs[i][1], service_pairs[i][2]) :
                 InPath(v, q)}

\* closed by the cascade, or closed from the start and not visited
Closed(v) == IF v \in DOMAIN newstatus THEN newstatus[v] = "0" ELSE status[v] = "0"

AfterCheckAfter == pc \in {"write", "done"} \/ (pc = "fault" /\ failedAt = "write")

\* C7: once check_after has returned, self.finalstatus holds "1" for every
\* closed isolating element on a simple path between a SOURCE and a USER of
\* the live graph, and holds nothing else.
C7_Reconciliation ==
    AfterCheckAfter =>
      /\ \A v \in ServiceValves(G) :
           Closed(v) => v \in DOMAIN finalstatus /\ finalstatus[v] = "1"
      /\ \A v \in DOMAIN finalstatus :
           finalstatus[v] = "1" /\ v \in ServiceValves(G) /\ Closed(v)

\* the nodes of the loaded graph with a predecessor and a successor
Inner(x) ==
    /\ \E e \in DOMAIN condition : e[2] = x
    /\ \E e \in DOMAIN condition : e[1] = x

\* the nodes of the loaded graph from which x is reached
Ancestors(x) ==
    {a \in DOMAIN D : a # x /\ x \in ReachFrom(Graph(DOMAIN D, DOMAIN condition), {a})}

\* C8: on a chain A -> B -> ... of SINGLE edges without isolating elements,
\* delete_a_node of an inner node X, the first perturbation of the graph,
\* raises nothing, and when it has returned self.bn holds X and its
\* descendants, the live graph holds the ancestors of X, and the service-paths
\* row from A to the last node carries NO_PATH in its final fields and the
\* length of the chain as original_shortest_path_length.
C8_TrivialChain ==
    op = "delete" /\ runs = 1 /\ Inner(origin) =>
      /\ pc # "fault"
      /\ pc = "done" =>
           LET last == Marks[Cardinality(DOMAIN D)]
               row == tables["service_paths_element_perturbation.csv"]["A" \o last]
           IN  /\ G.nodes = Ancestors(origin)
               /\ bn = (DOMAIN D) \ Ancestors(origin)
               /\ row.final_shortest_path_length.no_path
               /\ row.final_shortest_path.no_path
               /\ row.final_simple_path.no_path
               /\ row.final_pair_efficiency.no_path
               /\ row.original_shortest_path_length = Val(Cardinality(DOMAIN D) - 1)

\* C9: delete_a_node starts its workflow only on a node of the graph; the call
\* on a node that is not in the graph prints its report and changes nothing
\* else: the live graph with its attributes, self.broken, self.newstatus,
\* self.finalstatus and the snapshot (none is made) stay as they are.
C9_AbsentNodeOnlyReports ==
    [][/\ op' = "delete" /\ runs' = runs + 1 => origin' \in G.nodes
       /\ msg' = "The node is not in the graph" /\ msg' # msg =>
            UNCHANGED <<G, broken, newstatus, finalstatus, has_copy,
                        copy_of_self1, bn, visited, stack, lst0, lst, tables,
                        pc, runs>>]_vars

\* C9, its case: delete_a_node of a node that is not in the graph has
\* reported, on a graph no perturbation has touched.
C9_Witness ==
    /\ msg = "The node is not in the graph"
    /\ pc = "idle"
    /\ runs = 0
    /\ ~ has_copy
    /\ G = Graph(DOMAIN D, DOMAIN condition)

\* C10: simulate_multi_area_perturbation with an area that labels no node
\* prints its diagnostic and ends there: no node is removed, no snapshot is
\* taken, no attribute is written, no cascade runs; and nothing runs after it.
C10_InvalidAreaEnds ==
    /\ [][/\ op' = "area"
          /\ runs' = runs + 1
          /\ \E i \in 1..Len(multi_areas') :
               \A n \in DOMAIN area : area[n] # multi_areas'[i]
          => /\ pc' = "fault"
             /\ err' = "SystemExit"
             /\ msg' = "The area is not in the graph"
             /\ UNCHANGED <<G, has_copy, copy_of_self1, broken, newstatus,
                            finalstatus, visited, stack, bn, lst0, lst, tables>>]_vars
    /\ [][pc # "fault"]_vars

\* C10, its case: the second area of the list labels no node, the first one
\* does; the call has ended with the diagnostic on an untouched graph.
C10_Witness ==
    /\ pc = "fault"
    /\ err = "SystemExit"
    /\ runs = 1
    /\ Len(multi_areas) = 2
    /\ \E n \in DOMAIN area : area[n] = multi_areas[1]
    /\ \A n \in DOMAIN area : area[n] # multi_areas[2]
    /\ ~ has_copy
    /\ G = Graph(DOMAIN D, DOMAIN condition)

\* the areas passed to the running simulate_multi_area_perturbation
areas_of_run == {multi_areas[i] : i \in 1..Len(multi_areas)}

\* the for loop of simulate_multi_area_perturbation is over
AfterAreaLoop ==
    /\ op = "area"
    /\ \/ pc \in {"check_after", "write", "done"}
       \/ pc = "fault" /\ failedAt \in {"check_after", "write"}

\* C11: once the loop of simulate_multi_area_perturbation(areas) over the
\* failing nodes is over (so also when the call has completed), no node whose
\* area is in areas and whose PerturbationResistant is "0" is in the live
\* graph; and the origin of every cascade the call starts is a node of the
\* areas that is in the graph and is not perturbation resistant.
C11_AreaNodesRemoved ==
    /\ AfterAreaLoop =>
         \A n \in DOMAIN area :
           area[n] \in areas_of_run /\ FR[n] = "0" => n \notin G.nodes
    /\ op = "area" /\ pc \in {"rm_nodes", "remove"} =>
         /\ FR[origin] # "1"
         /\ area[origin] \in areas_of_run

\* C11, its case: the call on one area has completed; the area holds a node
\* that is not resistant and that the snapshot has, and the other area holds
\* a perturbation resistant node, which is still in the graph.
C11_Witness ==
    /\ op = "area"
    /\ pc = "done"
    /\ \E n \in copy_of_self1.nodes :
         area[n] \in areas_of_run /\ FR[n] = "0" /\ n \notin G.nodes
    /\ \E n \in G.nodes : area[n] \in areas_of_run /\ FR[n] = "1"

\* the table of node characteristics the completed call has written
nodes_table ==
    tables[IF op = "delete" THEN "element_perturbation.csv"
           ELSE "area_perturbation.csv"]

\* C12: when simulate_multi_area_perturbation(areas) has completed, every node
\* of the snapshot, removed or not, resistant or not, has Status_Area DAMAGED
\* if its area is in areas and AVAILABLE otherwise, in the snapshot and in the
\* table written; when delete_a_node has completed every node of the snapshot
\* has Status_Area AVAILABLE.
C12_StatusArea ==
    pc = "done" =>
      /\ DOMAIN copy_of_self1.Status_Area = copy_of_self1.nodes
      /\ DOMAIN nodes_table = copy_of_self1.nodes
      /\ \A n \in copy_of_self1.nodes :
           /\ copy_of_self1.Status_Area[n] =
                 IF op = "area" /\ area[n] \in areas_of_run
                 THEN "DAMAGED" ELSE "AVAILABLE"
           /\ nodes_table[n].Status_Area = copy_of_self1.Status_Area[n]

\* C12, its case: the call on one area has completed; of the nodes of the
\* area one is resistant and still in the graph and one has been removed; a
\* node of the other area is AVAILABLE.
C12_Witness ==
    /\ op = "area"
    /\ pc = "done"
    /\ \E n \in G.nodes : FR[n] = "1" /\ copy_of_self1.Status_Area[n] = "DAMAGED"
    /\ \E n \in copy_of_self1.nodes \ G.nodes :
         copy_of_self1.Status_Area[n] = "DAMAGED"
    /\ \E n \in copy_of_self1.nodes : copy_of_self1.Status_Area[n] = "AVAILABLE"

\* the running call has taken its snapshot
AfterSnapshot ==
    \/ pc \in {"propagate", "area_loop", "rm_nodes", "remove", "check_after",
               "write", "done"}
    \/ pc = "fault" /\ failedAt \in {"remove", "check_after", "write"}

\* the snapshot keeps its nodes and its edges in every step of the cascade,
\* of the removal, of check_after and of the writing of the results
SnapshotKept ==
    [][(pc \in {"propagate", "area_loop", "rm_nodes", "remove", "check_after",
                "write"})
       => (/\ (copy_of_self1').nodes = copy_of_self1.nodes
           /\ (copy_of_self1').edges = copy_of_self1.edges)]_vars

\* C13, as stated: the snapshot keeps its nodes and edges, and once the nodes
\* are removed, in delete_a_node and in simulate_multi_area_perturbation, the
\* nodes of the live graph are those of the snapshot that are not in self.bn.
C13_LiveIsSnapshotMinusBn ==
    /\ SnapshotKept
    /\ [](AfterRemoval \/ AfterAreaLoop =>
            G.nodes = copy_of_self1.nodes \ bn)

\* C13, amended: the snapshot keeps its nodes and edges; the live graph loses
\* nodes only in the removal that follows a cascade, and only nodes of the
\* self.bn of that cascade, all of them when the removal raises nothing; the
\* live graph is the snapshot restricted to the nodes that are left; and in
\* delete_a_node, which runs one cascade, the nodes left are those of the
\* snapshot that are not in self.bn.  (In simulate_multi_area_perturbation
\* self.bn holds the nodes of the last cascade only.)
C13_SnapshotRetained ==
    /\ SnapshotKept
    /\ [][(G').nodes # G.nodes =>
            (/\ pc = "remove"
             /\ (G').nodes \subseteq G.nodes
             /\ G.nodes \ (G').nodes \subseteq bn'
             /\ pc' # "fault" => (G').nodes = G.nodes \ bn'
             /\ copy_of_self1' = copy_of_self1)]_vars
    /\ [](AfterSnapshot =>
            /\ G.nodes \subseteq copy_of_self1.nodes
            /\ G.edges = {e \in copy_of_self1.edges :
                            e[1] \in G.nodes /\ e[2] \in G.nodes})
    /\ [](AfterRemoval => G.nodes = copy_of_self1.nodes \ bn)

\* C13, its case: simulate_multi_area_perturbation has completed after two
\* cascades; the snapshot has the two nodes removed, self.bn only the last.
C13_Witness ==
    /\ op = "area"
    /\ pc = "done"
    /\ Cardinality(copy_of_self1.nodes \ G.nodes) = 2
    /\ Cardinality(bn) = 1
    /\ bn \subseteq copy_of_self1.nodes \ G.nodes

\* a quotient of two integers, as the efficiencies compute it
IsNumber(x) == x # Blank /\ Len(x) = 2 /\ x[1] \in Int /\ x[2] \in Nat \ {0}

\* C14: when delete_a_node or simulate_multi_area_perturbation has completed,
\* a node of the snapshot has Mark_Status NOT_ACTIVE if it is not in the live
\* graph and ACTIVE if it is; final_nodal_eff and final_local_eff are the
\* blank for the nodes that are not in the live graph and a number for every
\* node that is, in the snapshot and in the table written.
C14_MarkStatusAndBlanks ==
    pc = "done" =>
      /\ DOMAIN copy_of_self1.Mark_Status = copy_of_self1.nodes
      /\ DOMAIN copy_of_self1.final_nodal_eff = copy_of_self1.nodes
      /\ DOMAIN copy_of_self1.final_local_eff = copy_of_self1.nodes
      /\ \A n \in copy_of_self1.nodes \ G.nodes :
           /\ copy_of_self1.Mark_Status[n] = "NOT_ACTIVE"
           /\ copy_of_self1.final_nodal_eff[n] = Blank
           /\ copy_of_self1.final_local_eff[n] = Blank
      /\ \A n \in copy_of_self1.nodes \cap G.nodes :
           /\ copy_of_self1.Mark_Status[n] = "ACTIVE"
           /\ IsNumber(copy_of_self1.final_nodal_eff[n])
           /\ IsNumber(copy_of_self1.final_local_eff[n])
      /\ \A n \in copy_of_self1.nodes :
           /\ nodes_table[n].Mark_Status = copy_of_self1.Mark_Status[n]
           /\ nodes_table[n].final_global_eff = copy_of_self1.final_nodal_eff[n]
           /\ nodes_table[n].final_local_eff = copy_of_self1.final_local_eff[n]

\* C14, its case: delete_a_node has completed; the cascade has removed two
\* nodes, two are left, one of which has a successor left.
C14_Witness ==
    /\ op = "delete"
    /\ pc = "done"
    /\ Cardinality(copy_of_self1.nodes \ G.nodes) = 2
    /\ Cardinality(G.nodes) = 2
    /\ G.edges # {}
    /\ \E n \in G.nodes : copy_of_self1.final_nodal_eff[n] # RZero

paths_table ==
    tables[IF op = "delete" THEN "service_paths_element_perturbation.csv"
           ELSE "service_paths_multi_area_perturbation.csv"]

\* C16: when delete_a_node or simulate_multi_area_perturbation has completed,
\* the service-paths table has one row for every (SOURCE, USER) pair and no
\* other row: the rows are as many as the pairs, and every pair is the
\* (from, to) of a row.
C16_OneRowPerPair ==
    pc = "done" =>
      /\ Cardinality(DOMAIN paths_table) = Len(service_pairs)
      /\ \A k \in 1..Len(service_pairs) :
           \E r \in DOMAIN paths_table :
             /\ paths_table[r].from = service_pairs[k][1]
             /\ paths_table[r].to = service_pairs[k][2]

\* which of the four path-valued fields of a row of check_after are NO_PATH
final_no_path(row) ==
    {row.final_simple_path.no_path, row.final_shortest_path.no_path,
     row.final_shortest_path_length.no_path, row.final_pair_efficiency.no_path}

\* check_after has raised while it was building the row of a pair: KeyError
\* for a missing entry of shortest_path or shpath_length, ZeroDivisionError
\* for a length 0 (nodal_eff raises it too, when one node is left)
RowFault ==
    /\ pc = "fault"
    /\ failedAt = "check_after"
    /\ \/ err = "KeyError"
       \/ err = "ZeroDivisionError" /\ Cardinality(G.nodes) # 1

\* C17: check_after builds the row of every (SOURCE, USER) pair without an
\* error; once it has run, the four final fields of a pair whose source or
\* user has been removed, or that no path joins in the live graph, are all
\* NO_PATH, and none of the four of a pair that a path joins is.
C17_UnreachableIsNoPath ==
    /\ ~ RowFault
    /\ AfterCheckAfter =>
         /\ Len(lst) = Len(service_pairs)
         /\ \A k \in 1..Len(service_pairs) :
              /\ lst[k].from = service_pairs[k][1]
              /\ lst[k].to = service_pairs[k][2]
              /\ IF connected(G, service_pairs[k][1], service_pairs[k][2])
                 THEN final_no_path(lst[k]) = {FALSE}
                 ELSE final_no_path(lst[k]) = {TRUE}

\* the loaded graph, without computed attributes
Loaded == Graph(DOMAIN D, DOMAIN Service)

\* C18: on the same graph, with weights 0 or more, the Floyd-Warshall
\* back-end and the Dijkstra back-end leave the same shpath_length on every
\* node: the same targets with the same lengths.
C18_BackendsAgree ==
    /\ pc = "floyd_warshall" =>
         G.shpath_length = single_source_shortest_path_serial(Loaded).g.shpath_length
    /\ pc = "dijkstra" =>
         G.shpath_length =
            floyd_warshall_predecessor_and_distance_serial(Loaded).g.shpath_length

ParallelBackends ==
    {"parallel_wrapper_proc", "floyd_warshall_predecessor_and_distance_parallel"}

DijkstraBackends == {"parallel_wrapper_proc", "single_source_shortest_path_serial"}

FloydWarshallBackends ==
    {"floyd_warshall_predecessor_and_distance_parallel",
     "floyd_warshall_predecessor_and_distance_serial"}

\* density <= 0.000001, from the two counts of the graph
LowDensity ==
    \/ n_of_edges = 0
    \/ n_of_nodes <= 1
    \/ n_of_edges * DensityScale <= n_of_nodes * (n_of_nodes - 1)

\* the table: one back-end is called, a parallel one iff there are more than
\* 10000 nodes, a Dijkstra one iff the density is at most 0.000001
SelectionTable ==
    called # <<>> =>
        /\ Len(called) = 1
        /\ called[1] \in ParallelBackends <=> n_of_nodes > ParallelThreshold
        /\ called[1] \in DijkstraBackends <=> LowDensity
        /\ called[1] \in FloydWarshallBackends <=> ~LowDensity

\* C19 as stated: calculate_shortest_path calls exactly one back-end, chosen
\* by the table, so that a graph of at most 10000 nodes with at least one edge
\* always uses the serial Floyd-Warshall.
C19_SelectionAsStated ==
    /\ SelectionTable
    /\ (called # <<>> /\ n_of_nodes <= ParallelThreshold /\ n_of_edges >= 1) =>
          called = <<"floyd_warshall_predecessor_and_distance_serial">>

\* C19: calculate_shortest_path calls exactly one back-end, chosen by the
\* table; a graph with at least one edge always uses the serial Floyd-Warshall
\* when it has at most 1000 nodes (fewer than FirstSparseOrder), and from
\* 1001 to 10000 nodes it uses the serial Dijkstra when its density is at
\* most 0.000001.
C19_Selection ==
    /\ SelectionTable
    /\ (called # <<>> /\ n_of_nodes < FirstSparseOrder /\ n_of_edges >= 1) =>
          called = <<"floyd_warshall_predecessor_and_distance_serial">>
    /\ (called # <<>> /\ n_of_nodes <= ParallelThreshold /\ LowDensity) =>
          called = <<"single_source_shortest_path_serial">>

\* a graph of 1001 to 10000 nodes with an edge, for which Dijkstra was chosen
C19_Witness ==
    /\ called = <<"single_source_shortest_path_serial">>
    /\ n_of_nodes >= FirstSparseOrder
    /\ n_of_nodes <= ParallelThreshold
    /\ n_of_edges >= 1

\* C20: in the parallel Floyd-Warshall the processes synchronise after each
\* iteration w of the kernel: every process has completed iteration w before
\* any process begins iteration w + 1, so no process is ever two or more
\* iterations ahead of another.
C20_BarrierEachIteration ==
    pc = "kernel" =>
        \A p \in DOMAIN kernel, q \in DOMAIN kernel :
            kernel[p].at = "for" => kernel[p].w <= kernel[q].w + 1

\* the collector has left its loop
Collected == pc \in {"collected", "dijkstra_parallel"}

\* every tuple a process has put was taken: none is with a queue's thread or
\* in the pipe
NoTupleLeft ==
    Collected => /\ out_q = <<>>
                 /\ \A p \in DOMAIN procs : procs[p].buffer = <<>>

\* C21: in the parallel Dijkstra every (source, result) tuple put on the queue
\* is taken by the collector before its loop ends, under every interleaving;
\* no tuple is left in the queue, and every node of the graph receives its
\* shortest_path and shpath_length from this run.
C21_EveryTupleCollected ==
    /\ NoTupleLeft
    /\ Collected => G.nodes = {attribute_ssspp[i] : i \in 1..Len(attribute_ssspp)}
    /\ pc = "dijkstra_parallel" =>
          /\ DOMAIN G.shortest_path = G.nodes
          /\ DOMAIN G.shpath_length = G.nodes

\* a process of a parallel back-end has raised
WorkerFailed ==
    \/ \E p \in DOMAIN procs : procs[p].raised
    \/ \E p \in DOMAIN kernel : kernel[p].at = "dead"

\* C22: a failure in a worker of the parallel Dijkstra or Floyd-Warshall aborts
\* the computation: once a worker has died before finishing its chunk or band
\* the orchestrator writes no shortest_path, shpath_length or efficiency
\* attribute (the graph keeps the attributes it was loaded with) and does not
\* end as a completed run.
C22_FailureAborts ==
    WorkerFailed =>
        /\ G = Loaded
        /\ pc \notin {"collected", "dijkstra_parallel", "floyd_warshall_parallel"}

\* the sum of bc(v) over the live nodes
bc_sum == RSum(G.betweenness_centrality, G.nodes)

RECURSIVE InnerSum(_)
\* the inner nodes (neither first nor last) of the paths of the pairs in S,
\* counted path by path
InnerSum(S) ==
    IF S = {} THEN 0
    ELSE LET st == CHOOSE y \in S : TRUE
         IN  Len(G.shortest_path[st[1]][st[2]]) - 2 + InnerSum(S \ {st})

\* every bc(v) lies in [0, 1]
bc_in_unit ==
    \A v \in G.nodes :
        /\ 0 <= G.betweenness_centrality[v][1]
        /\ G.betweenness_centrality[v][1] <= G.betweenness_centrality[v][2]

\* C23 as stated: when some reconstructed shortest path has more than one
\* node, each bc(v) lies in [0, 1] and the sum of bc(v) over the live nodes is
\* at most 1.
C23_BetweennessSumAtMostOne ==
    pc = "betweenness" =>
        /\ bc_in_unit
        /\ bc_sum[1] <= bc_sum[2]

\* C23: when some reconstructed shortest path has more than one node, each
\* bc(v) lies in [0, 1], and the sum of bc(v) over the live nodes is the mean
\* number of inner nodes of those paths: at most the number of nodes less 2,
\* and more than 1 when the paths have more than one inner node on average.
C23_Betweenness ==
    pc = "betweenness" =>
        /\ bc_in_unit
        /\ bc_sum = Rat(InnerSum(tot_shortest_paths_list(G)),
                        Cardinality(tot_shortest_paths_list(G)))
        /\ bc_sum[1] <= (Cardinality(G.nodes) - 2) * bc_sum[2]

\* a ring of five nodes: the betweenness values were written and their sum
\* is more than 1
C23_Witness ==
    /\ pc = "betweenness"
    /\ bc_sum[1] > bc_sum[2]

\* a serial back-end has written the attributes of every node
AfterAPSP == pc \in {"floyd_warshall", "dijkstra"}

\* the targets that have a path from n in the live graph, n included
Reachable(n) == {t \in G.nodes : has_path(G, n, t)}

\* C24: after APSP on a graph with non-negative weights, for every node n
\* shortest_path[n] and shpath_length[n] have an entry for the target t if and
\* only if t is reachable from n in the live graph (n included), and the
\* efficiency list of n holds one value for each such target and none for an
\* unreachable one.
C24_EntriesIffReachable ==
    AfterAPSP =>
        \A n \in G.nodes :
            /\ DOMAIN G.shortest_path[n] = Reachable(n)
            /\ DOMAIN G.shpath_length[n] = Reachable(n)
            /\ DOMAIN G.efficiency[n] = Reachable(n)

\* the matrices floyd_warshall_initialization made of the loaded graph, from
\* which the Floyd-Warshall back-end started
InitialMatrices == floyd_warshall_initialization(Loaded)

\* C26: Floyd-Warshall initialisation: for every edge u -> v dist[u][v] is the
\* weight of the edge, also when the weight is 0, and pred[u][v] = u; for every
\* ordered pair without an edge dist and pred are +inf; dist is 0 on the
\* diagonal.
C26_Initialisation ==
    pc = "floyd_warshall" =>
      \A i \in 0..(Cardinality(G.nodes) - 1), j \in 0..(Cardinality(G.nodes) - 1) :
        LET e == <<ids(Loaded, i), ids(Loaded, j)>>
        IN  IF i = j THEN InitialMatrices.dist[i, j] = 0
            ELSE IF e \in Loaded.edges
            THEN /\ InitialMatrices.dist[i, j] = Service[e]
                 /\ InitialMatrices.pred[i, j] = i
            ELSE /\ InitialMatrices.dist[i, j] = Inf
                 /\ InitialMatrices.pred[i, j] = Inf

\* the indicators and centralities check_before and the centrality methods
\* write on the nodes of the intact graph
OriginalAttrs ==
    {"original_nodal_eff", "original_avg_global_eff", "original_local_eff",
     "closeness_centrality", "betweenness_centrality", "indegree_centrality",
     "outdegree_centrality", "degree_centrality"}

\* the final_* indicators of the nodes of g
FinalIndicators(g) == <<g.final_nodal_eff, g.final_avg_global_eff, g.final_local_eff>>

\* C25: in delete_a_node, check_before and the centralities complete on the
\* intact graph first; then the snapshot is taken, and it carries every
\* original_* indicator for every node; then the cascade runs without removing
\* anything; then the nodes of bn are removed; only then check_after runs on
\* the reduced graph.  No node is removed before the snapshot exists and no
\* final_* indicator is computed before all removals are done.
C25_OrchestrationOrder ==
    [][op' = "delete" =>
        /\ (pc \in {"check_before", "centralities"} /\ pc' # "fault") =>
              (G').nodes = G.nodes /\ (G').edges = G.edges
        /\ pc = "snapshot" =>
              /\ copy_of_self1' = G
              /\ \A a \in OriginalAttrs : DOMAIN G[a] = G.nodes
              /\ pc' = "propagate"
        /\ pc \in {"propagate", "rm_nodes"} =>
              G' = G /\ copy_of_self1' = copy_of_self1
        /\ (G').nodes # G.nodes =>
              /\ pc = "remove"
              /\ has_copy
              /\ copy_of_self1.nodes = G.nodes
        /\ (pc = "remove" /\ pc' # "fault") =>
              (G').nodes = G.nodes \ bn' /\ pc' = "check_after"
        /\ (FinalIndicators(G') # FinalIndicators(G)
              \/ (pc # "snapshot"
                    /\ FinalIndicators(copy_of_self1') # FinalIndicators(copy_of_self1))) =>
              /\ pc = "check_after"
              /\ bn \cap G.nodes = {}
              /\ G.nodes = copy_of_self1.nodes \ bn
    ]_vars

\* a delete_a_node that removed nodes and whose check_after wrote the final
\* indicators of the reduced graph on the snapshot
C25_Witness ==
    /\ op = "delete"
    /\ pc = "write"
    /\ bn # {}
    /\ G.nodes = copy_of_self1.nodes \ bn
    /\ G.nodes # {}
    /\ \A n \in G.nodes : n \in DOMAIN copy_of_self1.final_nodal_eff

\* the matrices the serial Floyd-Warshall kernel leaves for the loaded graph
SerialMatrices ==
    floyd_warshall_kernel(InitialMatrices, Cardinality(DOMAIN D), 0, 0,
                          Cardinality(DOMAIN D))

RECURSIVE PathWeight(_)
\* the sum of the edge weights along a sequence of Marks
PathWeight(p) ==
    IF Len(p) < 2 THEN 0
    ELSE Service[<<p[1], p[2]>>] + PathWeight(Tail(p))

\* C27: from the predecessor matrix of the serial Floyd-Warshall, for every
\* pair (s, t) ConstructPath terminates and returns [s] when s = t, the empty
\* sequence when pred[s,t] is +inf, and otherwise a sequence that starts at s,
\* ends at t, in which every consecutive pair is an edge of the graph and
\* whose edge weights sum to dist[s,t].
C27_PathReconstruction ==
    pc = "floyd_warshall" =>
        \A s, t \in 0..(Cardinality(DOMAIN D) - 1) :
            LET r == ConstructPath(Loaded, s, t, SerialMatrices.pred)
                p == r.path
            IN  /\ r.kind = "ok"
                /\ s = t => p = <<ids(Loaded, s)>>
                /\ (s # t /\ SerialMatrices.pred[s, t] = Inf) => p = <<>>
                /\ (s # t /\ SerialMatrices.pred[s, t] # Inf) =>
                      /\ Len(p) >= 2
                      /\ p[1] = ids(Loaded, s)
                      /\ p[Len(p)] = ids(Loaded, t)
                      /\ \A k \in 1..(Len(p) - 1) : <<p[k], p[k + 1]>> \in DOMAIN Service
                      /\ G.shortest_path[p[1]][p[Len(p)]] = p
                      /\ PathWeight(p) = SerialMatrices.dist[s, t]

RECURSIVE Flatten(_)
\* the chunks of a list put one after the other
Flatten(chunks) ==
    IF chunks = <<>> THEN <<>> ELSE Head(chunks) \o Flatten(Tail(chunks))

\* the rows init .. stop-1 of a band
Band(b) == b[1]..(b[2] - 1)

\* chunk_it returned one chunk for each of the self.num processes
ExactlyNumChunks == partition # <<>> => Len(partition.node_chunks) = partition.num

\* the chunks are consecutive pieces of the node list: disjoint, in order,
\* and together the whole list
ChunksCoverInOrder ==
    partition # <<>> =>
        Flatten(partition.node_chunks) = [i \in 1..n_of_nodes |-> i - 1]

\* the bands of the processes follow each other from row 0 and do not overlap
BandsContiguousDisjoint ==
    partition # <<>> =>
        /\ partition.chunk[0][1] = 0
        /\ \A p \in DOMAIN partition.chunk :
              /\ partition.chunk[p][1] <= partition.chunk[p][2]
              /\ p > 0 => partition.chunk[p][1] = partition.chunk[p - 1][2]
        /\ \A p, q \in DOMAIN partition.chunk :
              p # q => Band(partition.chunk[p]) \cap Band(partition.chunk[q]) = {}

\* every row 0 .. n-1 is in the band of a process
BandsCoverRows ==
    partition # <<>> =>
        UNION {Band(partition.chunk[p]) : p \in DOMAIN partition.chunk}
            = 0..(n_of_nodes - 1)

\* C28: for every node count n >= 1 and worker count W >= 1, chunk_it yields
\* exactly W contiguous chunks that are pairwise disjoint and together cover
\* the node list in order, and the (init, stop) row bands given to the
\* parallel Floyd-Warshall workers are contiguous, pairwise disjoint and cover
\* the rows 0 .. n-1, so that no two workers write the same cell.
C28_RowPartition ==
    /\ ExactlyNumChunks
    /\ ChunksCoverInOrder
    /\ BandsContiguousDisjoint
    /\ BandsCoverRows

\* C29: operations run to completion.  When no process fails, the parallel
\* Floyd-Warshall terminates: all its processes reach the barrier, are
\* released and are joined, also when some row bands are empty; and the
\* collector loop of the parallel Dijkstra eventually exits, once every
\* process has finished and the queue is drained.
C29_RunToCompletion ==
    /\ (pc = "kernel") ~> (pc \in {"floyd_warshall_parallel", "fault"})
    /\ (pc \in {"while", "drain"}) ~>
          (pc = "collected" /\ out_q = <<>> /\ \A p \in DOMAIN procs : ~procs[p].alive)

\* the parallel Floyd-Warshall has ended with a process whose band was empty
C29_Witness ==
    /\ pc = "floyd_warshall_parallel"
    /\ \E p \in DOMAIN kernel :
          kernel[p].init = kernel[p].stop /\ kernel[p].at = "exit"

\* the pairs (source, target) for which the graph g holds a shortest path
PathPairs(g) ==
    {e \in (DOMAIN g.shortest_path) \X g.nodes : e[2] \in DOMAIN g.shortest_path[e[1]]}

\* C30: under every interleaving of its processes the parallel Floyd-Warshall
\* ends with the same dist matrix and the same set of reachable (non-empty
\* path) pairs as the serial Floyd-Warshall on the same graph.
C30_ParallelEqualsSerial ==
    pc = "floyd_warshall_parallel" =>
        /\ arr = SerialMatrices.dist
        /\ PathPairs(G) =
              PathPairs(floyd_warshall_predecessor_and_distance_serial(Loaded).g)

\* the successor the for loop of rm_nodes takes first when it follows the
\* order of the input file
FirstInFile(S) == CHOOSE n \in S : \A m \in S : Idx(n) <= Idx(m)

RECURSIVE ordered_cascade(_, _)
\* rm_nodes run to its end from the frames st.stack, the successors of every
\* node taken in the order of the input file
ordered_cascade(g, st) ==
    IF st.stack = <<>> THEN st
    ELSE LET top == st.stack[Len(st.stack)]
             rest == SubSeq(st.stack, 1, Len(st.stack) - 1)
         IN  IF top.todo = {}
             THEN ordered_cascade(g, [st EXCEPT !.stack = rest])
             ELSE LET next == FirstInFile(top.todo)
                      r == RmEnter(g, next, st.visited, st.broken, st.newstatus,
                                   CHOOSE rep \in CondSet(g, next) : TRUE)
                      stk == Append(rest, [top EXCEPT !.todo = @ \ {next}])
                  IN  ordered_cascade(g,
                          [stack |-> IF r.descend
                                     THEN Append(stk, [node |-> next,
                                                       todo |-> successors(g, next) \ r.visited])
                                     ELSE stk,
                           visited |-> r.visited,
                           broken |-> r.broken,
                           newstatus |-> r.newstatus])

\* rm_nodes(m) on the graph g of a newly loaded object, in file order
cascade_in_file_order(g, m) ==
    LET r == RmEnter(g, m, {}, {}, EmptyMap, CHOOSE rep \in CondSet(g, m) : TRUE)
    IN  ordered_cascade(g,
            [stack |-> IF r.descend
                       THEN <<[node |-> m, todo |-> successors(g, m) \ r.visited]>>
                       ELSE <<>>,
             visited |-> r.visited,
             broken |-> r.broken,
             newstatus |-> r.newstatus])

\* the incoming edges of every node carry one single condition
OneConditionPerNode == \A n \in G.nodes : Cardinality(CondSet(G, n)) = 1

\* the cascade of the first delete_a_node on the object has returned
FirstCascadeOver == op = "delete" /\ pc = "remove" /\ runs = 1

\* C31: the cascade is deterministic: for a graph in which the incoming edges
\* of each node carry one single condition and for an origin m, the broken
\* set and the newstatus map that rm_nodes(m) leaves do not depend on the
\* order in which the successors of a node are traversed; whatever the order
\* taken, they are those of the traversal in file order.
C31_CascadeDeterministic ==
    (FirstCascadeOver /\ OneConditionPerNode) =>
        /\ broken = cascade_in_file_order(G, origin).broken
        /\ newstatus = cascade_in_file_order(G, origin).newstatus

\* the node a step of the for loop of rm_nodes calls rm_nodes with
EnteredByLoop ==
    IF pc = "rm_nodes" /\ stack # <<>> /\ Len(stack') >= Len(stack)
    THEN Top.todo \ (stack')[Len(stack)].todo
    ELSE {}

\* C32: rm_nodes terminates on every finite graph, cycles included: each
\* node is visited at most once per cascade (the visited set only grows and a
\* visited node is never entered again), so the number of recursive calls is
\* bounded by the node count.
C32_VisitedOnce ==
    /\ (pc = "rm_nodes") ~> (pc # "rm_nodes")
    /\ [][pc = "rm_nodes" /\ pc' = "rm_nodes" => visited \subseteq visited']_vars
    /\ [][EnteredByLoop \cap visited = {}]_vars

\* the origin of the running cascade and the nodes that can be reached from
\* it in the live graph
Descendants(m) == ReachFrom(G, {m})

\* a call of rm_nodes is being made or has just returned
InCascade == pc \in {"propagate", "area_loop", "rm_nodes"}

\* C33: a cascade only touches descendants of its origin: every node that
\* rm_nodes(m) puts in the broken list and every key it adds to newstatus is
\* m or reachable from m in the graph as it is before the cascade; the
\* sentinel NULL never appears in bn; the cascade removes no node and no edge
\* from the live graph; removal happens only afterwards, on exactly the nodes
\* of bn.
C33_CascadeFrame ==
    /\ [][InCascade =>
            /\ Marked(broken, broken') \subseteq Descendants(origin')
            /\ (DOMAIN newstatus') \ (DOMAIN newstatus) \subseteq Descendants(origin')
            /\ G' = G]_vars
    /\ [](runs = 1 /\ op = "delete" /\ pc = "remove" =>
            /\ {x[1] : x \in broken} \subseteq Descendants(origin)
            /\ DOMAIN newstatus \subseteq Descendants(origin))
    /\ [](NULL \notin bn)
    /\ [][(G'.nodes # G.nodes \/ G'.edges # G.edges) =>
            /\ pc = "remove"
            /\ G.nodes \ G'.nodes \subseteq bn'
            /\ pc' # "fault" => G'.nodes = G.nodes \ bn'
            /\ G'.edges = {e \in G.edges : e[1] \in G'.nodes /\ e[2] \in G'.nodes}]_vars

\* a cascade went beyond its origin, the nodes of bn were removed and a node
\* that is no descendant of the origin is left
C33_Witness ==
    /\ op = "delete"
    /\ pc = "check_after"
    /\ Cardinality(bn) >= 2
    /\ G.nodes = copy_of_self1.nodes \ bn
    /\ \E n \in G.nodes : n \notin ReachFrom(copy_of_self1, {origin})

\* the nodes of self.broken without the sentinel: what the removal step makes
\* self.bn of
BrokenNodes == ({x[1] : x \in broken} \cup {x[2] : x \in broken}) \ {NULL}

\* C34: across any sequence of perturbations on one loaded graph, every node
\* of the deduplicated broken list bn is in the live graph at the moment it is
\* removed: the broken list never carries nodes removed by an earlier
\* perturbation into a later one, and no removal raises.
C34_BrokenNotStale ==
    /\ pc = "remove" => BrokenNodes \subseteq G.nodes
    /\ ~(pc = "fault" /\ failedAt = "remove")

\* the steps of a perturbation that compute indicators
IndicatorSteps == {"check_before", "centralities", "check_after"}

\* C35: indicator computation never faults on a reachable live graph:
\* whenever check_before, check_after or a centrality runs inside
\* delete_a_node or simulate_multi_area_perturbation, the live graph is not
\* empty and the denominator N - 1 is not zero, and no indicator step raises,
\* so that a perturbation on a loaded graph that contains its target
\* completes and emits both tables.
C35_IndicatorsNeverFault ==
    /\ pc \in IndicatorSteps => Cardinality(G.nodes) >= 2
    /\ ~(pc = "fault" /\ failedAt \in IndicatorSteps)

(***************************************************************************)
(* The pre-perturbation indicators of the snapshot.                        *)
(***************************************************************************)
FinalAttrs == {"final_nodal_eff", "final_avg_global_eff", "final_local_eff"}

\* the steps of a perturbation that follow the deepcopy, up to check_after
PerturbationSteps == {"propagate", "area_loop", "rm_nodes", "remove", "check_after"}

\* what check_before and the centralities leave on the loaded graph
Intact ==
    LET g0 == indicators(Loaded, NoGraph).g
        g3 == indegree_centrality(betweenness_centrality(closeness_centrality(g0)).g)
    IN  IF op = "delete" THEN degree_centrality(outdegree_centrality(g3)) ELSE g3

\* C36: the cascade, the removal of the nodes and check_after leave on the
\* snapshot every attribute that is not a final_* one as it was: the nodes, the
\* edges, original_nodal_eff, original_local_eff, original_avg_global_eff, the
\* centralities, shortest_path and shpath_length; in the first perturbation
\* these are, when check_after is over, the values computed on the intact
\* graph.
C36_SnapshotIndicatorsKept ==
    /\ [][(pc \in PerturbationSteps) =>
            (\A k \in (DOMAIN copy_of_self1) \ FinalAttrs :
                (copy_of_self1')[k] = copy_of_self1[k])]_vars
    /\ [](runs = 1 /\ has_copy /\ pc \in {"write", "done"} =>
            \A k \in OriginalAttrs \cup {"shortest_path", "shpath_length"} :
               copy_of_self1[k] = Intact[k])

\* check_after is over on a reduced graph: the snapshot carries the blank
\* final value of a removed node next to its original one, and a node that is
\* left has in the live graph other shortest paths than in the snapshot
C36_Witness ==
    /\ pc = "write" /\ runs = 1
    /\ \E n \in bn : /\ copy_of_self1.final_nodal_eff[n] = Blank
                     /\ copy_of_self1.original_nodal_eff[n] # Blank
    /\ \E n \in G.nodes : G.shortest_path[n] # copy_of_self1.shortest_path[n]

(***************************************************************************)
(* The order of the cascade origins of simulate_multi_area_perturbation.   *)
(***************************************************************************)
RECURSIVE area_in_file_order(_, _)
\* the loop of simulate_multi_area_perturbation over the nodes todo on the
\* graph g, the origins and the successors of every node taken in the order
\* of the input file: the graph that is left
area_in_file_order(g, todo) ==
    IF todo = {} THEN g
    ELSE LET node == FirstInFile(todo)
             b == cascade_in_file_order(g, node).broken
             bn1 == ({x[1] : x \in b} \cup {x[2] : x \in b}) \ {NULL}
         IN  IF node \in g.nodes
             THEN area_in_file_order(remove_nodes(g, bn1), todo \ {node})
             ELSE area_in_file_order(g, todo \ {node})

\* FV_nodes_in_area: the nodes of the areas that are not perturbation resistant
FailingNodes == nodes_in_area \ {n \in DOMAIN FR : FR[n] = "1"}

\* C37: the outcome of simulate_multi_area_perturbation(areas) does not depend
\* on the order in which the failing nodes of the areas are taken as cascade
\* origins: when the loop is over, the nodes of the live graph are, whatever
\* the order taken, those that the loop leaves when it takes the origins in
\* file order.
C37_OriginOrderIrrelevant ==
    (op = "area" /\ pc = "check_after" /\ runs = 1) =>
        G.nodes = area_in_file_order(copy_of_self1, FailingNodes).nodes

====
